---- MODULE Spec2Model ----
(***************************************************************************)
(* A model of buntdb (src/buntdb.go): the keys tree, the expires tree and  *)
(* the index trees of one database, the reader/writer lock, transactions   *)
(* with their rollback and commit maps, the append-only log with its       *)
(* loader, and the clock the expiration code reads.                        *)
(*                                                                         *)
(* Strings are sequences of one-character strings, so that the code's      *)
(* byte-wise comparisons and pattern matches can be computed.  A b-tree is *)
(* the set of its items together with the Less of its context; two items   *)
(* are the same tree entry when neither is Less than the other.            *)
(*                                                                         *)
(* Time is counted in clock granules.  Every call of time.Now() returns    *)
(* the current instant and the clock then moves on by one granule, so two  *)
(* successive readings are never equal (Go's clock readings carry a        *)
(* nanosecond monotonic part).                                             *)
(***************************************************************************)
EXTENDS Integers, Sequences, FiniteSets, TLC

\* ---------------------------------------------------------------- bounds
MaxNow == 5
MaxLog == 2
\* The most commits that write to the log.
MaxFlush == 3

\* Granules per time.Second.
Second == 2

Procs == {1, 2, 3}
Keys == {<<"a">>, <<"b">>}
Vals == {<<"x">>, <<"y">>}
\* The TTLs a caller passes to Set, in granules: 0 and a second and a half.
TTLs == {0, 3}
IndexNames == {"idx"}
Patterns == {<<"*">>, <<"a">>}

\* ------------------------------------------------------------- strings
\* Byte values of the characters the model uses ("NUL" is the byte 0).
Ord(c) ==
    CASE c = "NUL" -> 0
      [] c = "\n" -> 10
      [] c = "\r" -> 13
      [] c = "$" -> 36
      [] c = "*" -> 42
      [] c = "0" -> 48
      [] c = "1" -> 49
      [] c = "2" -> 50
      [] c = "3" -> 51
      [] c = "4" -> 52
      [] c = "5" -> 53
      [] c = "6" -> 54
      [] c = "7" -> 55
      [] c = "8" -> 56
      [] c = "9" -> 57
      [] c = "?" -> 63
      [] c = "D" -> 68
      [] c = "E" -> 69
      [] c = "L" -> 76
      [] c = "S" -> 83
      [] c = "T" -> 84
      [] c = "X" -> 88
      [] c = "a" -> 97
      [] c = "b" -> 98
      [] c = "c" -> 99
      [] c = "d" -> 100
      [] c = "e" -> 101
      [] c = "i" -> 105
      [] c = "l" -> 108
      [] c = "r" -> 114
      [] c = "s" -> 115
      [] c = "t" -> 116
      [] c = "x" -> 120
      [] c = "y" -> 121

\* Go's < on strings: byte-wise lexicographic order.
RECURSIVE StrLess(_, _)
StrLess(a, b) ==
    LET byte(x, y) == IF x < y THEN TRUE
                      ELSE IF x > y THEN FALSE
                      ELSE StrLess(Tail(a), Tail(b))
    IN IF b = <<>> THEN FALSE
       ELSE IF a = <<>> THEN TRUE
       ELSE byte(Ord(Head(a)), Ord(Head(b)))

RECURSIVE deepMatch(_, _)
wildcardMatch(str, pattern) ==
    IF pattern = <<"*">> THEN TRUE ELSE deepMatch(str, pattern)

deepMatch(str, pattern) ==
    IF pattern = <<>> THEN str = <<>>
    ELSE IF Head(pattern) = "*"
         THEN \/ wildcardMatch(str, Tail(pattern))
              \/ (str # <<>> /\ wildcardMatch(Tail(str), pattern))
    ELSE IF Head(pattern) = "?"
         THEN str # <<>> /\ deepMatch(Tail(str), Tail(pattern))
    ELSE str # <<>> /\ Head(str) = Head(pattern)
         /\ deepMatch(Tail(str), Tail(pattern))

\* --------------------------------------------------------------- items
\* A *dbItem.  ex/exat are opts.ex and opts.exat; an item without opts has
\* ex = FALSE and exat = 0.
Item(k, v, ex, exat) == [key |-> k, val |-> v, ex |-> ex, exat |-> exat]

\* The nil *dbItem.
Nil == [key |-> <<>>, val |-> <<>>, ex |-> FALSE, exat |-> -1]

\* dbItem.expired at clock reading t.
expired(dbi, t) == dbi.ex /\ t > dbi.exat

\* An item that does not expire is ordered at maxTime in the expires tree.
maxTime == MaxNow + 100
expiresAt(dbi) == IF dbi.ex THEN dbi.exat ELSE maxTime

\* The less functions an index is created with.
IndexBinary(a, b) == StrLess(a, b)

\* The b-tree contexts: nil for the keys tree, an *exctx for the expires
\* tree, the *index for an index tree.
NilCtx == [type |-> "nil", less |-> ""]
ExCtx == [type |-> "exctx", less |-> ""]
IdxCtx(less) == [type |-> "index", less |-> less]

\* ctx.less(a, b) of an index; an index created with no less function gets
\* one that is always false.
CtxLess(ctx, a, b) ==
    IF ctx.less = "IndexBinary" THEN IndexBinary(a, b) ELSE FALSE

\* dbItem.Less.
Less(dbi, dbi2, ctx) ==
    LET less(at, at2, lt, gt) ==
            IF ctx.type = "exctx" /\ at2 > at THEN TRUE
            ELSE IF ctx.type = "exctx" /\ at > at2 THEN FALSE
            ELSE IF ctx.type = "index" /\ lt THEN TRUE
            ELSE IF ctx.type = "index" /\ gt THEN FALSE
            ELSE StrLess(dbi.key, dbi2.key)
    IN less(expiresAt(dbi), expiresAt(dbi2),
            CtxLess(ctx, dbi.val, dbi2.val), CtxLess(ctx, dbi2.val, dbi.val))

\* -------------------------------------------------------------- b-tree
\* The entries of tree tr that are the same entry as item it.
Same(tr, it, ctx) == {e \in tr : ~Less(e, it, ctx) /\ ~Less(it, e, ctx)}

\* BTree.ReplaceOrInsert and BTree.Delete.
ReplaceOrInsert(tr, it, ctx) == (tr \ Same(tr, it, ctx)) \cup {it}
TreeDelete(tr, it, ctx) == tr \ Same(tr, it, ctx)

\* The entries of a tree in ascending order.
RECURSIVE TreeAscend(_, _)
TreeAscend(tr, ctx) ==
    IF tr = {} THEN <<>>
    ELSE LET m == CHOOSE e \in tr : \A f \in tr \ {e} : Less(e, f, ctx)
         IN <<m>> \o TreeAscend(tr \ {m}, ctx)

Reverse(s) == [i \in 1..Len(s) |-> s[Len(s) + 1 - i]]

\* db.get: BTree.Get on the keys tree.
get(tr, k) ==
    LET one(s) == IF s = {} THEN Nil ELSE CHOOSE e \in s : TRUE
    IN one(Same(tr, Item(k, <<>>, FALSE, 0), NilCtx))

\* ------------------------------------------------------------ database
VARIABLES
    now,        \* the clock: the next reading of time.Now()
    keys,       \* db.keys:  the set of items of the keys tree
    exps,       \* db.exps:  the set of items of the expires tree
    idxs,       \* db.idxs:  index name -> [pattern, less, rect, btr, rtr]
    mu,         \* db.mu:    [w |-> a writer holds it, r |-> number of readers]
    closed,     \* db.closed
    persist,    \* db.persist
    flushes,    \* db.flushes
    file,       \* the log file: the sequence of its records
    modTime,    \* the log file's modification time
    txs,        \* per caller: its transaction, [st, writable, funcd]
    rollbacks,  \* tx.rollbacks of the write transaction: key -> item or Nil
    commits,    \* tx.commits of the write transaction:   key -> item or Nil
    scan,       \* the scan in progress, if any
    ret,        \* what the last call returned
    begun,      \* the trees as they were when the open write transaction began
    atClose,    \* the keys tree as it was when Close emptied the database
    due,        \* key -> when its last Set was made and with which TTL
    shrinking,  \* db.shrinking
    shr,        \* per caller of Shrink: how far its call has come
    config,     \* db.config: [SyncPolicy]
    raw,        \* a log file that another program left at the path
    fileErr,    \* the error that Write, Sync and Close of db.file return
    synced,     \* how many records of the log the last Sync found written
    bgflushes,  \* the flushes variable of the background manager
    bg          \* the background manager runs

vars == <<now, keys, exps, idxs, mu, closed, persist, flushes, file, modTime,
          txs, rollbacks, commits, scan, ret, begun, atClose, due, shrinking,
          shr, config, raw, fileErr, synced, bgflushes, bg>>

\* The empty Go map.
EmptyMap == [k \in {} |-> Nil]

\* m with m[k] = v.
MapSet(m, k, v) == [x \in (DOMAIN m) \cup {k} |-> IF x = k THEN v ELSE m[x]]

\* The three trees the mutators work on.
Trees(ks, es, is) == [keys |-> ks, exps |-> es, idxs |-> is]
DB == Trees(keys, exps, idxs)

\* rtree.Insert and rtree.Remove on the set of items an r-tree holds.  (An
\* index without a rect function has no r-tree: its set stays empty.)
\* (RTreeKeep: a Remove that leaves the item in the tree.)
RTreeInsert(rtr, item) == rtr \cup {item}
RTreeKeep(rtr, item) == rtr
RTreeRemove(rtr, item) == rtr \ {item}

\* db.insertIntoDatabase: the trees afterwards, and the previous item.
\* The element of a set of one element.
Only(S) == CHOOSE x \in S : TRUE

insertIntoDatabase(d, item) ==
    LET less(n) == IdxCtx(d.idxs[n].less)
        exps2(exps1) == IF item.ex THEN ReplaceOrInsert(exps1, item, ExCtx)
                        ELSE exps1
        btr2(n, btr1) == IF wildcardMatch(item.key, d.idxs[n].pattern)
                         THEN ReplaceOrInsert(btr1, item, less(n))
                         ELSE btr1
        rtr2(n, rtr1) == IF /\ d.idxs[n].rect # ""
                            /\ wildcardMatch(item.key, d.idxs[n].pattern)
                         THEN RTreeInsert(rtr1, item)
                         ELSE rtr1
        insert(pdbi) ==
            [db   |-> Trees(ReplaceOrInsert(d.keys, item, NilCtx),
                            exps2(IF pdbi # Nil /\ pdbi.ex
                                  THEN TreeDelete(d.exps, pdbi, ExCtx)
                                  ELSE d.exps),
                            [n \in DOMAIN d.idxs |->
                                [d.idxs[n] EXCEPT
                                   !.btr = btr2(n, IF pdbi # Nil
                                                THEN TreeDelete(@, pdbi, less(n))
                                                ELSE @),
                                   !.rtr = rtr2(n, IF pdbi # Nil
                                                THEN RTreeRemove(@, pdbi)
                                                ELSE @)]]),
             prev |-> pdbi]
    IN Only({insert(pdbi) : pdbi \in {get(d.keys, item.key)}})

\* db.deleteFromDatabase: the trees afterwards, and the item removed.
deleteFromDatabase(d, k) ==
    LET delete(pdbi) ==
            IF pdbi = Nil THEN [db |-> d, prev |-> Nil]
            ELSE [db |-> Trees(
                      d.keys \ {pdbi},
                      IF pdbi.ex THEN TreeDelete(d.exps, pdbi, ExCtx)
                      ELSE d.exps,
                      [n \in DOMAIN d.idxs |->
                          [d.idxs[n] EXCEPT
                             !.btr = TreeDelete(@, pdbi,
                                                IdxCtx(d.idxs[n].less)),
                             !.rtr = RTreeRemove(@, pdbi)]]),
                  prev |-> pdbi]
    IN Only({delete(pdbi) : pdbi \in {get(d.keys, k)}})

\* ---------------------------------------------------------------- errors
ErrNil == "nil"
ErrTxNotWritable == "tx not writable"
ErrTxClosed == "tx closed"
ErrNotFound == "not found"
ErrInvalid == "invalid database"
ErrDatabaseClosed == "database closed"
ErrTxIterating == "tx is iterating"
\* strconv.ParseInt's range and syntax errors, returned by load.
ErrRange == "value out of range"
ErrSyntax == "invalid syntax"
\* io.EOF and io.ErrUnexpectedEOF.
ErrEOF == "EOF"
ErrUnexpectedEOF == "unexpected EOF"
\* The error a transaction body returns to make Update roll back.
ErrBroken == "broken"

\* What a call returned: the operation, its caller and key, the value and
\* error it returned, Set's replaced flag, the item the call found in the
\* keys tree, the instant the call was made, (for Update and View) the error
\* the transaction body returned, (for Len) the count, (for Indexes) the
\* names and (for ReadConfig) the Config the caller's variable holds, which
\* starts as the zero Config.
Ret(op, p, k, v, e, rep, it, t) ==
    [op |-> op, p |-> p, key |-> k, val |-> v, err |-> e, replaced |-> rep,
     item |-> it, at |-> t, arg |-> "", n |-> 0, names |-> <<>>,
     cfg |-> [SyncPolicy |-> 0]]

NoTx == [st |-> "none", writable |-> FALSE, funcd |-> FALSE]
\* No scan is running.  A running scan has its caller, the item its iterator
\* is working on (Nil between the start and the first call), the items still
\* to come, and whether the caller changed the trees from inside the
\* iterator.
NoScan == [active |-> FALSE, p |-> 0, cur |-> Nil, rest |-> <<>>,
           dirty |-> FALSE]

\* ------------------------------------------------------------------ lock
\* sync.RWMutex: the lock states Lock and RLock can lead to (none: it blocks).
Lock(m) == IF ~m.w /\ m.r = 0 THEN {[m EXCEPT !.w = TRUE]} ELSE {}
RLock(m) == IF ~m.w THEN {[m EXCEPT !.r = @ + 1]} ELSE {}

\* Unlock and RUnlock of sync.RWMutex.
\* (RHold: an RUnlock that does not give the read lock back.)
Unlock(m) == [m EXCEPT !.w = FALSE]
RHold(m) == m
RUnlock(m) == [m EXCEPT !.r = @ - 1]

\* Tx.lock and Tx.unlock.
\* (lockShared: a lock that takes the read lock for every transaction.)
lockShared(m, writable) == RLock(m)
lock(m, writable) == IF writable THEN Lock(m) ELSE RLock(m)
\* (unlockWrite: an unlock that gives back the write lock only.)
unlockWrite(m, writable) == [m EXCEPT !.w = FALSE]
unlock(m, writable) ==
    IF writable THEN [m EXCEPT !.w = FALSE] ELSE [m EXCEPT !.r = @ - 1]

\* ---------------------------------------------------------- Set/Get/Delete
\* The options of a Set: nil, or Expires with a TTL.
NoOpts == [Expires |-> FALSE, TTL |-> 0]
Opts == {NoOpts} \cup {[Expires |-> TRUE, TTL |-> d] : d \in TTLs}

\* The item Tx.Set builds at clock reading t.
\* (SetItemNoZero: a Set that takes the TTL 0 for no TTL at all.)
SetItemNoZero(k, v, opts, t) ==
    IF opts.Expires /\ opts.TTL > 0 THEN Item(k, v, TRUE, t + opts.TTL)
    ELSE Item(k, v, FALSE, 0)
SetItem(k, v, opts, t) ==
    IF opts.Expires THEN Item(k, v, TRUE, t + opts.TTL)
    ELSE Item(k, v, FALSE, 0)

\* Tx.Set on a writable transaction, called at clock reading t: the trees and
\* maps afterwards, what it returns, and how often it read the clock.
\* (SetAnyPrev: a Set that reports every previous item, expired or not.)
SetAnyPrev(d, rb, cm, k, v, opts, t) ==
    LET r1 == IF opts.Expires THEN 1 ELSE 0
        set(item, prev, after) ==
            [db  |-> after,
             rb  |-> IF prev = Nil THEN MapSet(rb, k, Nil)
                     ELSE IF k \in DOMAIN rb THEN rb ELSE MapSet(rb, k, prev),
             cm  |-> IF persist THEN MapSet(cm, k, item) ELSE cm,
             val |-> IF prev # Nil THEN prev.val ELSE <<>>,
             replaced |-> prev # Nil,
             err |-> ErrNil,
             item |-> prev,
             reads |-> r1 + (IF prev # Nil /\ prev.ex THEN 1 ELSE 0)]
        done(item, ins) == set(item, ins.prev, ins.db)
        put(item) ==
            Only({done(item, ins) : ins \in {insertIntoDatabase(d, item)}})
    IN Only({put(item) : item \in {SetItem(k, v, opts, t)}})
Set(d, rb, cm, k, v, opts, t) ==
    LET r1 == IF opts.Expires THEN 1 ELSE 0
        set(item, prev, after) ==
            [db  |-> after,
             rb  |-> IF prev = Nil THEN MapSet(rb, k, Nil)
                     ELSE IF k \in DOMAIN rb THEN rb ELSE MapSet(rb, k, prev),
             cm  |-> IF persist THEN MapSet(cm, k, item) ELSE cm,
             val |-> IF prev # Nil /\ ~expired(prev, t + r1) THEN prev.val
                     ELSE <<>>,
             replaced |-> prev # Nil /\ ~expired(prev, t + r1),
             err |-> ErrNil,
             item |-> prev,
             reads |-> r1 + (IF prev # Nil /\ prev.ex THEN 1 ELSE 0)]
        done(item, ins) == set(item, ins.prev, ins.db)
        put(item) ==
            Only({done(item, ins) : ins \in {insertIntoDatabase(d, item)}})
    IN Only({put(item) : item \in {SetItem(k, v, opts, t)}})

\* Tx.Get at clock reading t.
\* (GetEvict: a Get that deletes the expired item it finds.)
GetEvict(d, rb, cm, k, t) ==
    LET read(item, gone, after) ==
            [db  |-> IF item # Nil /\ gone THEN after ELSE d,
             rb  |-> rb, cm |-> cm,
             val |-> IF gone THEN <<>> ELSE item.val,
             replaced |-> FALSE,
             err |-> IF gone THEN ErrNotFound ELSE ErrNil,
             item |-> item,
             reads |-> IF item # Nil /\ item.ex THEN 1 ELSE 0]
        found(del) ==
            read(del.prev, del.prev = Nil \/ expired(del.prev, t), del.db)
    IN Only({found(del) : del \in {deleteFromDatabase(d, k)}})
Get(d, rb, cm, k, t) ==
    LET read(item, gone) ==
            [db  |-> d, rb |-> rb, cm |-> cm,
             val |-> IF gone THEN <<>> ELSE item.val,
             replaced |-> FALSE,
             err |-> IF gone THEN ErrNotFound ELSE ErrNil,
             item |-> item,
             reads |-> IF item # Nil /\ item.ex THEN 1 ELSE 0]
        found(item) == read(item, item = Nil \/ expired(item, t))
    IN Only({found(item) : item \in {get(d.keys, k)}})

\* Tx.Delete on a writable transaction, called at clock reading t.
\* (DeleteLive: a Delete that leaves an expired item where it is.)
DeleteLive(d, rb, cm, k, t) ==
    LET delete(item, after) ==
            IF item = Nil \/ expired(item, t)
            THEN [db |-> d, rb |-> rb, cm |-> cm, val |-> <<>>,
                  replaced |-> FALSE, err |-> ErrNotFound, item |-> item,
                  reads |-> IF item # Nil /\ item.ex THEN 1 ELSE 0]
            ELSE [db  |-> after,
                  rb  |-> IF k \in DOMAIN rb THEN rb ELSE MapSet(rb, k, item),
                  cm  |-> IF persist THEN MapSet(cm, k, Nil) ELSE cm,
                  val |-> item.val,
                  replaced |-> FALSE,
                  err |-> ErrNil,
                  item |-> item,
                  reads |-> IF item.ex THEN 1 ELSE 0]
        done(del) == delete(del.prev, del.db)
    IN Only({done(del) : del \in {deleteFromDatabase(d, k)}})
Delete(d, rb, cm, k, t) ==
    LET delete(item, after) ==
            IF item = Nil
            THEN [db |-> d, rb |-> rb, cm |-> cm, val |-> <<>>,
                  replaced |-> FALSE, err |-> ErrNotFound, item |-> Nil,
                  reads |-> 0]
            ELSE [db  |-> after,
                  rb  |-> IF k \in DOMAIN rb THEN rb ELSE MapSet(rb, k, item),
                  cm  |-> IF persist THEN MapSet(cm, k, Nil) ELSE cm,
                  val |-> IF expired(item, t) THEN <<>> ELSE item.val,
                  replaced |-> FALSE,
                  err |-> IF expired(item, t) THEN ErrNotFound ELSE ErrNil,
                  item |-> item,
                  reads |-> IF item.ex THEN 1 ELSE 0]
        done(del) == delete(del.prev, del.db)
    IN Only({done(del) : del \in {deleteFromDatabase(d, k)}})

\* Tx.rollbackInner: the trees after walking the rollbacks map.  The keys of
\* the map are distinct, so the order of the walk does not matter.
RECURSIVE rollbackWalk(_, _, _)
rollbackWalk(d, rb, ks) ==
    LET back(k, del) == IF rb[k] # Nil THEN insertIntoDatabase(del, rb[k]).db
                        ELSE del
        undo(k) ==
            Only({rollbackWalk(d2, rb, ks \ {k}) :
                    d2 \in {back(k, deleteFromDatabase(d, k).db)}})
    IN IF ks = {} THEN d ELSE undo(CHOOSE x \in ks : TRUE)

rollbackInner(d, rb) == rollbackWalk(d, rb, DOMAIN rb)

\* ------------------------------------------------------------------- log
\* A record of the log is the sequence of the bulks of one RESP array.  The
\* seconds bulk of SET ... EX is kept as the 64-bit pattern it prints:
\* [w |-> FALSE, n |-> q] is the decimal q, [w |-> TRUE, n |-> q] with q < 0
\* is the decimal 2^64 + q.
SetVerb == <<"s", "e", "t">>
DelVerb == <<"d", "e", "l">>
ExWord == <<"e", "x">>

\* Go's integer division, which truncates toward zero.
Quo(a, b) == IF a >= 0 THEN a \div b ELSE -((-a) \div b)

\* strconv.FormatUint(uint64(q), 10).
FormatUint64(q) == [w |-> q < 0, n |-> q]

\* strconv.ParseInt(s, 10, 64): a value above 2^63 - 1 is a range error,
\* and a bulk that is not a number (NaN) a syntax error.
NaN == [w |-> TRUE, n |-> 0]
ParseIntOK(s) == ~s.w
ParseInt(s) == s.n
ParseIntErr(s) == IF s = NaN THEN ErrSyntax ELSE ErrRange

\* dbItem.writeSetTo at clock reading t, and dbItem.writeDeleteTo.
writeSetTo(dbi, t) ==
    IF dbi.ex
    THEN <<SetVerb, dbi.key, dbi.val, ExWord,
           FormatUint64(Quo(dbi.exat - t, Second))>>
    ELSE <<SetVerb, dbi.key, dbi.val>>
writeDeleteTo(k) == <<DelVerb, k>>

\* The orders in which a range over a Go map can visit the keys ks.
Orders(ks) ==
    {o \in [1..Cardinality(ks) -> ks] :
        \A i, j \in DOMAIN o : i # j => o[i] # o[j]}

\* The buffer Tx.commit fills by walking the commits map in order o from
\* clock reading t: the records, and the clock afterwards (writeSetTo reads
\* the clock for every item that expires).
RECURSIVE writeCommits(_, _, _)
writeCommits(cm, o, t) ==
    LET more(rec, rest) == [buf |-> <<rec>> \o rest.buf, t |-> rest.t]
        write(k) ==
            IF cm[k] = Nil
            THEN more(writeDeleteTo(k), writeCommits(cm, Tail(o), t))
            ELSE more(writeSetTo(cm[k], t),
                      writeCommits(cm, Tail(o), IF cm[k].ex THEN t + 1 ELSE t))
    IN IF o = <<>> THEN [buf |-> <<>>, t |-> t] ELSE write(Head(o))

ToLower(c) ==
    CASE c = "D" -> "d" [] c = "E" -> "e" [] c = "L" -> "l" [] c = "S" -> "s"
      [] c = "T" -> "t" [] c = "X" -> "x" [] OTHER -> c
StrToLower(s) == [i \in DOMAIN s |-> ToLower(s[i])]

\* The loader's tests of the command name.
IsSet(v) ==
    /\ (v[1] = "s" \/ v[2] = "S")
    /\ (v[2] = "e" \/ v[2] = "E")
    /\ (v[3] = "t" \/ v[3] = "T")
IsDel(v) ==
    /\ (v[1] = "d" \/ v[2] = "D")
    /\ (v[2] = "e" \/ v[2] = "E")
    /\ (v[3] = "l" \/ v[3] = "L")

\* One round of the loop of DB.load on the record parts, with the trees d
\* and the clock t: the trees and the clock afterwards, and the error that
\* ends the load, if any.
loadRecord(d, parts, mt, t) ==
    LET end(e) == [db |-> d, t |-> t, err |-> e]
        set(item, reads) ==
            [db |-> IF item = Nil THEN d ELSE insertIntoDatabase(d, item).db,
             t |-> t + reads, err |-> ErrNil]
        setEx(dur) ==
            set(IF dur > 0 THEN Item(parts[2], parts[3], TRUE, t + dur)
                ELSE Nil, 1)
    IN IF Len(parts) = 0 THEN end(ErrNil)
       ELSE IF Len(parts[1]) # 3 THEN end(ErrInvalid)
       ELSE IF IsSet(parts[1]) THEN
           IF Len(parts) < 3 \/ Len(parts) = 4 \/ Len(parts) > 5
           THEN end(ErrInvalid)
           ELSE IF Len(parts) = 5 THEN
               IF StrToLower(parts[4]) # ExWord THEN end(ErrInvalid)
               ELSE IF ~ParseIntOK(parts[5]) THEN end(ParseIntErr(parts[5]))
               ELSE setEx(ParseInt(parts[5]) * Second - (t - mt))
           ELSE set(Item(parts[2], parts[3], FALSE, 0), 0)
       ELSE IF IsDel(parts[1]) THEN
           IF Len(parts) # 2 THEN end(ErrInvalid)
           ELSE [db |-> deleteFromDatabase(d, parts[2]).db,
                 t |-> t, err |-> ErrNil]
       ELSE end(ErrInvalid)

\* DB.load: the records of the file are applied in order to the trees d.
RECURSIVE load(_, _, _, _)
load(d, recs, mt, t) ==
    LET next(r) == IF r.err # ErrNil THEN r
                   ELSE load(r.db, Tail(recs), mt, r.t)
    IN IF recs = <<>> THEN [db |-> d, t |-> t, err |-> ErrNil]
       ELSE next(loadRecord(d, Head(recs), mt, t))

\* --------------------------------------------------------- log, in bytes
\* strconv.FormatInt(n, 10) for the lengths writeHead writes.
Digits == <<"0", "1", "2", "3", "4", "5", "6", "7", "8", "9">>
RECURSIVE FormatInt(_)
FormatInt(n) ==
    IF n < 10 THEN <<Digits[n + 1]>>
    ELSE FormatInt(n \div 10) \o <<Digits[(n % 10) + 1]>>

\* writeHead and writeMultiBulk: the bytes of one record.
writeHead(c, n) == <<c>> \o FormatInt(n) \o <<"\r", "\n">>
RECURSIVE writeBulks(_)
writeBulks(bulks) ==
    IF bulks = <<>> THEN <<>>
    ELSE writeHead("$", Len(Head(bulks))) \o Head(bulks) \o <<"\r", "\n">>
         \o writeBulks(Tail(bulks))
writeMultiBulk(bulks) == writeHead("*", Len(bulks)) \o writeBulks(bulks)

\* The loop of load that turns the digits s into a number, from n on; -1
\* when a byte is not a digit.
RECURSIVE number(_, _)
number(s, n) ==
    IF s = <<>> THEN n
    ELSE IF Ord(Head(s)) < Ord("0") \/ Ord(Head(s)) > Ord("9") THEN -1
    ELSE number(Tail(s), n * 10 + (Ord(Head(s)) - Ord("0")))

\* The number load reads from a line that ends in a line feed, behind the
\* byte that marks it; -1 when load returns ErrInvalid.
\* (lineNumberLax: a load that does not look for the carriage return.)
lineNumberLax(line) ==
    IF Len(line) < 3 THEN -1 ELSE number(SubSeq(line, 2, Len(line) - 2), 0)
lineNumber(line) ==
    IF Len(line) = 4 /\ line[3] = "\r" THEN number(<<line[2]>>, 0)
    ELSE IF Len(line) < 5 \/ line[Len(line) - 1] # "\r" THEN -1
    ELSE number(SubSeq(line, 2, Len(line) - 2), 0)

\* bufio.Reader.ReadBytes('\n') from position pos: the position of the next
\* line feed, or 0 when the data ends before one.
RECURSIVE findLF(_, _)
findLF(data, pos) ==
    IF pos > Len(data) THEN 0
    ELSE IF data[pos] = "\n" THEN pos
    ELSE findLF(data, pos + 1)

\* The loop of load that reads the n parts of a command from position pos:
\* the parts, the position behind them, and the error that ends the load.
RECURSIVE readParts(_, _, _, _)
readParts(data, pos, n, parts) ==
    LET end(e) == [parts |-> parts, pos |-> pos, err |-> e]
        bulk(from, m) ==
            IF Len(data) < from THEN end(ErrEOF)
            ELSE IF Len(data) < from + m + 1 THEN end(ErrUnexpectedEOF)
            ELSE IF data[from + m] # "\r" \/ data[from + m + 1] # "\n"
            THEN end(ErrInvalid)
            ELSE readParts(data, from + m + 2, n - 1,
                           Append(parts, SubSeq(data, from, from + m - 1)))
        sized(lf, m) == IF m < 0 THEN end(ErrInvalid) ELSE bulk(lf + 1, m)
        line(lf) == IF lf = 0 THEN end(ErrEOF)
                    ELSE IF data[pos] # "$" THEN end(ErrInvalid)
                    ELSE sized(lf, lineNumber(SubSeq(data, pos, lf)))
    IN IF n = 0 THEN end(ErrNil) ELSE line(findLF(data, pos))

\* The seconds bulk of a record read from bytes, as strconv.ParseInt sees it.
Numeral(s) ==
    LET value(n) == IF s = <<>> \/ n < 0 THEN NaN ELSE [w |-> FALSE, n |-> n]
    IN value(number(s, 0))
Numerals(parts) ==
    IF Len(parts) = 5 THEN [parts EXCEPT ![5] = Numeral(@)] ELSE parts

\* DB.load on the bytes data from position pos, with the trees d and the
\* clock t: the trees and the clock afterwards, and the error, if any.
RECURSIVE loadBytes(_, _, _, _, _)
loadBytes(d, data, pos, mt, t) ==
    LET end(e) == [db |-> d, t |-> t, err |-> e]
        next(r, at) == IF r.err # ErrNil THEN r
                       ELSE loadBytes(r.db, data, at, mt, r.t)
        command(rp) == IF rp.err # ErrNil THEN end(rp.err)
                       ELSE next(loadRecord(d, Numerals(rp.parts), mt, t),
                                 rp.pos)
        counted(lf, n) == IF n < 0 THEN end(ErrInvalid)
                          ELSE command(readParts(data, lf + 1, n, <<>>))
        line(lf) ==
            IF lf = 0
            THEN end(IF pos <= Len(data) THEN ErrUnexpectedEOF ELSE ErrNil)
            ELSE IF data[pos] # "*" THEN end(ErrInvalid)
            ELSE counted(lf, lineNumber(SubSeq(data, pos, lf)))
    IN line(findLF(data, pos))

\* ------------------------------------------------------------------ scan
\* The items Tx.scan's b-tree call visits, in order: scan picks the call of
\* the tree by desc, gt and lt, with the limit items a and b.
Traverse(tr, ctx, desc, gt, lt, a, b) ==
    LET in(ea, ae, eb, be) ==
            IF desc THEN
                IF gt /\ lt THEN ~ae /\ be       \* DescendRange(a, b)
                ELSE IF gt THEN ae               \* DescendGreaterThan(a)
                ELSE IF lt THEN ~ae              \* DescendLessOrEqual(a)
                ELSE TRUE                        \* Descend
            ELSE
                IF gt /\ lt THEN ~ea /\ eb       \* AscendRange(a, b)
                ELSE IF gt THEN ~ea              \* AscendGreaterOrEqual(a)
                ELSE IF lt THEN ea               \* AscendLessThan(a)
                ELSE TRUE                        \* Ascend
        dir(s) == IF desc THEN Reverse(s) ELSE s
    IN dir(TreeAscend({e \in tr : in(Less(e, a, ctx), Less(a, e, ctx),
                                     Less(e, b, ctx), Less(b, e, ctx))}, ctx))

\* The tree a scan of index runs on, and its context.
\* (ScanCtxKeys: a scan that compares the items of every tree by key.)
ScanTree(d, index) == IF index = "" THEN d.keys ELSE d.idxs[index].btr
ScanCtxKeys(d, index) == NilCtx
ScanCtx(d, index) ==
    IF index = "" THEN NilCtx ELSE IdxCtx(d.idxs[index].less)

\* The limit items of a scan.
\* (LimitVal: limit items that carry the limit in their value for every
\* tree.)
LimitVal(index, s) == Item(<<>>, s, FALSE, 0)
Limit(index, s) ==
    IF index = "" THEN Item(s, <<>>, FALSE, 0) ELSE Item(<<>>, s, FALSE, 0)

\* The items Tx.scan hands to the iterator, in order.
scanItems(d, desc, gt, lt, index, start, stop) ==
    Traverse(ScanTree(d, index), ScanCtx(d, index), desc, gt, lt,
             Limit(index, start), Limit(index, stop))

\* What a walk that had the items rest before it finds when its iterator
\* has changed the tree: at every place the item that the keys tree holds
\* now, and nothing where the item was deleted.
Refresh(d, rest) ==
    LET there(found) == SelectSeq(found, LAMBDA e : e # Nil)
    IN there([i \in DOMAIN rest |-> get(d.keys, rest[i].key)])

\* ----------------------------------------------------------------- state
NoIdxs == [n \in {} |-> 0]
\* at and ttl of a key whose last Set had no TTL, or that was never set.
NoTTL == [at |-> -1, ttl |-> -1]
NoDue == [k \in Keys |-> NoTTL]
\* The trees d and the due instants du, kept while a write transaction is
\* open to compare a rollback with.
Begun(d, du) == [keys |-> d.keys, exps |-> d.exps, idxs |-> d.idxs, due |-> du]
NoBegun == Begun(Trees({}, {}, NoIdxs), NoDue)

\* The values of SyncPolicy, and the Config that Open installs.
Never == 0
EverySecond == 1
Always == 2
Config(policy) == [SyncPolicy |-> policy]

\* The callers of Shrink.
Shrinkers == {1, 2}
\* A caller that is not inside Shrink.  Inside, pc is the step the call
\* runs next ("chunk", "final", "defer"), endpos is the length of the log
\* when the call began, pivot the key the next chunk starts from, tmp the
\* records of the temporary file, mt its modification time, and err the
\* error the call will return.
NoShrink == [pc |-> "idle", endpos |-> 0, pivot |-> <<>>, tmp |-> <<>>,
             mt |-> 0, err |-> ErrNil]

\* No log file from another program: the log is the one the database wrote.
\* Such a file has its bytes, and for reference how it was made (kind) and
\* the well-formed records it was made from (recs).
NoRaw == [data |-> <<>>, kind |-> "none", recs |-> <<>>]

\* A call that returns without touching the database.
Plain(op, p, k, e) == Ret(op, p, k, <<>>, e, FALSE, Nil, now)

Init ==
    /\ now = 0
    /\ keys = {}
    /\ exps = {}
    /\ idxs = NoIdxs
    /\ mu = [w |-> FALSE, r |-> 0]
    /\ closed = FALSE
    /\ persist \in BOOLEAN
    /\ flushes = 0
    /\ file = <<>>
    /\ modTime = 0
    /\ txs = [p \in Procs |-> NoTx]
    /\ rollbacks = EmptyMap
    /\ commits = EmptyMap
    /\ scan = NoScan
    /\ ret = Ret("Open", 0, <<>>, <<>>, ErrNil, FALSE, Nil, 0)
    /\ begun = NoBegun
    /\ atClose = {}
    /\ due = NoDue
    /\ shrinking = FALSE
    /\ shr = [s \in Shrinkers |-> NoShrink]
    /\ config = Config(EverySecond)
    /\ raw = NoRaw
    /\ fileErr = ErrNil
    /\ synced = 0
    /\ bgflushes = 0
    /\ bg = TRUE

\* p has an open transaction and is not between two calls of a scan's
\* iterator.
Open(p) == txs[p].st = "open"
InScan(p) == scan.active /\ scan.p = p
CanCall(p) == Open(p) /\ (InScan(p) => scan.cur # Nil)
Touched(p) == [scan EXCEPT !.dirty = @ \/ InScan(p)]

\* Time passes while no call is made.
Idle == Ret("", 0, <<>>, <<>>, ErrNil, FALSE, Nil, 0)
Tick ==
    /\ now < MaxNow
    /\ now' = now + 1
    /\ ret' = Idle
    /\ UNCHANGED <<keys, exps, idxs, mu, closed, persist, fileErr, synced, bgflushes, bg, raw, shrinking, shr, config, flushes, file,
                   modTime, txs, rollbacks, commits, scan, begun, atClose,
                   due>>

\* DB.begin, for Begin (funcd = FALSE) and for DB.managed (funcd = TRUE).
begin(p, writable, funcd) ==
    /\ txs[p].st = "none"
    /\ \E m \in lock(mu, writable) :
        IF closed
        THEN /\ ret' = Plain("begin", p, <<>>, ErrDatabaseClosed)
             /\ UNCHANGED <<mu, txs, rollbacks, commits, begun>>
        ELSE /\ mu' = m
             /\ txs' = [txs EXCEPT ![p] = [st |-> "open",
                            writable |-> writable, funcd |-> funcd]]
             /\ ret' = Plain("begin", p, <<>>, ErrNil)
             /\ IF writable
                THEN /\ rollbacks' = EmptyMap
                     /\ commits' = EmptyMap
                     /\ begun' = Begun(DB, due)
                ELSE UNCHANGED <<rollbacks, commits, begun>>
    /\ UNCHANGED <<now, keys, exps, idxs, closed, persist, fileErr, synced, bgflushes, bg, raw, shrinking, shr, config, flushes, file,
                   modTime, scan, atClose, due>>

Begin(p, writable) == begin(p, writable, FALSE)
Managed(p, writable) == begin(p, writable, TRUE)

\* The effect r of Set, Get or Delete becomes the state.
Apply(op, p, k, r) ==
    /\ now + r.reads <= MaxNow
    /\ now' = now + r.reads
    /\ keys' = r.db.keys
    /\ exps' = r.db.exps
    /\ idxs' = r.db.idxs
    /\ rollbacks' = r.rb
    /\ commits' = r.cm
    /\ ret' = Ret(op, p, k, r.val, r.err, r.replaced, r.item, now)
    /\ UNCHANGED <<mu, closed, persist, fileErr, synced, bgflushes, bg, raw, shrinking, shr, config, flushes, file, modTime, txs, begun,
                   atClose>>

Refuse(op, p, k, e) ==
    /\ ret' = Plain(op, p, k, e)
    /\ UNCHANGED <<now, keys, exps, idxs, mu, closed, persist, fileErr, synced, bgflushes, bg, raw, shrinking, shr, config, flushes, file,
                   modTime, txs, rollbacks, commits, scan, begun, atClose,
                   due>>

TxSet(p, k, v, opts) ==
    /\ CanCall(p)
    /\ IF ~txs[p].writable THEN Refuse("Set", p, k, ErrTxNotWritable)
       ELSE /\ Apply("Set", p, k, Set(DB, rollbacks, commits, k, v, opts, now))
            /\ scan' = Touched(p)
            /\ due' = [due EXCEPT ![k] =
                          IF opts.Expires
                          THEN [at |-> now, ttl |-> opts.TTL] ELSE NoTTL]

TxGet(p, k) ==
    /\ CanCall(p)
    /\ Apply("Get", p, k, Get(DB, rollbacks, commits, k, now))
    /\ UNCHANGED <<scan, due>>

TxDelete(p, k) ==
    LET delete(r) == /\ Apply("Delete", p, k, r)
                     /\ scan' = IF r.item = Nil THEN scan ELSE Touched(p)
                     /\ due' = due
    IN /\ CanCall(p)
       /\ IF ~txs[p].writable THEN Refuse("Delete", p, k, ErrTxNotWritable)
          ELSE delete(Delete(DB, rollbacks, commits, k, now))

\* Tx.Len.
TxLen(p) ==
    /\ CanCall(p)
    /\ ret' = [Plain("Len", p, <<>>, ErrNil) EXCEPT !.n = Cardinality(keys)]
    /\ UNCHANGED <<now, keys, exps, idxs, mu, closed, persist, fileErr, synced, bgflushes, bg, raw, shrinking, shr, config, flushes, file,
                   modTime, txs, rollbacks, commits, scan, begun, atClose,
                   due>>

\* ------------------------------------------------------- commit, rollback
\* The errors of the log file: the file was closed behind the database's
\* back, and the device is full.
ErrFileClosed == "file already closed"
ErrNoSpace == "no space left on device"

\* File.Write of the records buf with the file in condition e: the records
\* that reach the file.  A closed file takes none, a full device any number
\* short of all.
Write(e, buf) ==
    IF e = ErrNil THEN {buf}
    ELSE IF e = ErrNoSpace THEN {SubSeq(buf, 1, k) : k \in 0..(Len(buf) - 1)}
    ELSE {<<>>}

\* File.Sync with the file in condition e, when n records are written and
\* sy of them were on disk before: a closed file cannot be synced.
Sync(e, sy, n) == IF e = ErrFileClosed THEN sy ELSE n

\* The part of the log that is on disk after Tx.commit has written: commit
\* calls Sync when the policy is Always.
\* (commitSyncLate: a commit that leaves every Sync to the background.)
commitSyncLate(cfg, e, sy, n) == sy
commitSync(cfg, e, sy, n) ==
    IF cfg.SyncPolicy = Always THEN Sync(e, sy, n) ELSE sy

\* Tx.commit of a writable transaction: the records go to the log in one
\* write, the lock is released and the transaction is closed.  When the
\* write fails the rollbacks map is walked and the caller gets the error.
commit(op, p, body) ==
    /\ IF persist /\ DOMAIN commits # {}
       THEN \E w \in {writeCommits(commits, o, now) :
                         o \in Orders(DOMAIN commits)} :
            \E wr \in Write(fileErr, w.buf) :
              /\ w.t <= MaxNow
              /\ Len(file) + Len(wr) <= MaxLog
              /\ flushes < MaxFlush
              /\ now' = w.t
              /\ flushes' = flushes + 1
              /\ file' = file \o wr
              /\ modTime' = IF wr = <<>> THEN modTime
                            ELSE IF w.t > now THEN w.t - 1 ELSE now
              /\ synced' = commitSync(config, fileErr, synced,
                                      Len(file) + Len(wr))
              /\ IF fileErr = ErrNil
                 THEN UNCHANGED <<keys, exps, idxs, due>>
                 ELSE /\ \E d \in {rollbackInner(DB, rollbacks)} :
                            /\ keys' = d.keys
                            /\ exps' = d.exps
                            /\ idxs' = d.idxs
                      /\ due' = begun.due
              /\ ret' = [Plain(op, p, <<>>, fileErr) EXCEPT !.arg = body]
       ELSE /\ ret' = [Plain(op, p, <<>>, ErrNil) EXCEPT !.arg = body]
            /\ UNCHANGED <<file, modTime, now, flushes, synced, keys, exps,
                           idxs, due>>
    /\ mu' = unlock(mu, TRUE)
    /\ txs' = [txs EXCEPT ![p] = NoTx]
    /\ rollbacks' = EmptyMap
    /\ commits' = EmptyMap
    /\ begun' = NoBegun
    /\ UNCHANGED <<closed, persist, fileErr, bgflushes, bg, raw, shrinking, shr,
                   config, scan, atClose>>

\* Tx.rollback: a writable transaction walks its rollbacks map; the lock is
\* released and the transaction is closed.  e is what the caller gets.
rollback(op, p, body, e) ==
    /\ IF txs[p].writable
       THEN \E d \in {rollbackInner(DB, rollbacks)} :
               /\ keys' = d.keys
               /\ exps' = d.exps
               /\ idxs' = d.idxs
               /\ rollbacks' = EmptyMap
               /\ commits' = EmptyMap
               /\ due' = begun.due
       ELSE UNCHANGED <<keys, exps, idxs, rollbacks, commits, due>>
    /\ mu' = unlock(mu, txs[p].writable)
    /\ txs' = [txs EXCEPT ![p] = NoTx]
    /\ ret' = [Plain(op, p, <<>>, e) EXCEPT !.arg = body]
    /\ begun' = NoBegun
    /\ UNCHANGED <<now, closed, persist, fileErr, synced, bgflushes, bg, raw, shrinking, shr, config, flushes, file, modTime, scan,
                   atClose>>

\* Tx.Commit and Tx.Rollback called by hand on a transaction from Begin.
Commit(p) ==
    /\ Open(p) /\ ~InScan(p) /\ ~txs[p].funcd
    /\ IF txs[p].writable THEN commit("Commit", p, "")
       ELSE Refuse("Commit", p, <<>>, ErrTxNotWritable)

Rollback(p) ==
    /\ Open(p) /\ ~InScan(p) /\ ~txs[p].funcd
    /\ rollback("Rollback", p, "", ErrNil)

\* The body fn of DB.managed returns e, and the deferred function of managed
\* runs: roll back and return e when e is an error, else commit (Update) or
\* roll back (View).
ManagedName(p) == IF txs[p].writable THEN "Update" ELSE "View"
managed(p, e) ==
    IF e # ErrNil \/ ~txs[p].writable THEN rollback(ManagedName(p), p, e, e)
    ELSE commit(ManagedName(p), p, e)

ManagedReturn(p, e) ==
    /\ Open(p) /\ ~InScan(p) /\ txs[p].funcd
    /\ managed(p, e)

\* The body of DB.managed panics and does not recover: the deferred
\* functions of managed run with err still nil, so an Update commits and a
\* View rolls back, and the panic goes on to the caller of Update or View.
\* (A panic inside the iterator of a scan first ends the scan.)
ErrPanic == "panic"
ManagedPanic(p) ==
    /\ Open(p) /\ ~InScan(p) /\ txs[p].funcd
    /\ IF txs[p].writable THEN commit(ManagedName(p), p, ErrPanic)
       ELSE rollback(ManagedName(p), p, ErrPanic, ErrNil)

\* The test Tx.commit and Tx.rollback begin with: the message they panic
\* with, or "" when they go on.
\* (commitEntryLax: a commit that does not look at tx.funcd.)
PanicCommit == "managed tx commit not allowed"
PanicRollback == "managed tx rollback not allowed"
commitEntryLax(funcd) == ""
commitEntry(funcd) == IF funcd THEN PanicCommit ELSE ""
rollbackEntry(funcd) == IF funcd THEN PanicRollback ELSE ""

\* A call that panics with msg before it touches anything.
Panic(op, p, msg) ==
    /\ ret' = [Plain(op, p, <<>>, ErrPanic) EXCEPT !.arg = msg]
    /\ UNCHANGED <<now, keys, exps, idxs, mu, closed, persist, fileErr, synced,
                   bgflushes, bg, raw, shrinking, shr, config, flushes, file,
                   modTime, txs, rollbacks, commits, scan, begun, atClose,
                   due>>

\* Tx.commit and Tx.rollback called by hand on any open transaction, also
\* from inside the body of DB.managed and from inside an iterator.
TxCommit(p) ==
    /\ CanCall(p)
    /\ \E msg \in {commitEntry(txs[p].funcd)} :
          IF msg # "" THEN Panic("commit", p, msg)
          ELSE IF ~txs[p].writable
          THEN Refuse("Commit", p, <<>>, ErrTxNotWritable)
          ELSE ~InScan(p) /\ commit("Commit", p, "")

TxRollback(p) ==
    /\ CanCall(p)
    /\ \E msg \in {rollbackEntry(txs[p].funcd)} :
          IF msg # "" THEN Panic("rollback", p, msg)
          ELSE ~InScan(p) /\ rollback("Rollback", p, "", ErrNil)

\* The log file fails from now on: it was closed behind the database's
\* back, or its device is full.
FileFails(e) ==
    /\ persist /\ ~closed /\ fileErr = ErrNil
    /\ fileErr' = e
    /\ ret' = Idle
    /\ UNCHANGED <<now, keys, exps, idxs, mu, closed, persist, synced,
                   bgflushes, bg, raw, shrinking, shr, config, flushes, file,
                   modTime, txs, rollbacks, commits, scan, begun, atClose,
                   due>>

\* ------------------------------------------------------------ scan steps
\* Tx.scan is called: the b-tree call is chosen and the walk begins.
\* The method of Tx that calls tx.scan with these flags.
scanName(desc, gt, lt) ==
    IF desc THEN IF gt /\ lt THEN "DescendRange"
                 ELSE IF gt THEN "DescendGreaterThan"
                 ELSE IF lt THEN "DescendLessOrEqual"
                 ELSE "Descend"
    ELSE IF gt /\ lt THEN "AscendRange"
         ELSE IF gt THEN "AscendGreaterOrEqual"
         ELSE IF lt THEN "AscendLessThan"
         ELSE "Ascend"

ScanStart(p, desc, gt, lt, index, start, stop) ==
    /\ Open(p) /\ ~scan.active
    /\ IF index # "" /\ index \notin DOMAIN idxs
       THEN Refuse("scan", p, <<>>, ErrNotFound)
       ELSE /\ scan' = [active |-> TRUE, p |-> p, cur |-> Nil,
                        rest |-> scanItems(DB, desc, gt, lt, index, start,
                                           stop),
                        dirty |-> FALSE]
            /\ ret' = [Plain("scan", p, start, ErrNil) EXCEPT
                          !.val = stop, !.names = <<index>>,
                          !.arg = scanName(desc, gt, lt)]
            /\ UNCHANGED <<now, keys, exps, idxs, mu, closed, persist, fileErr, synced, bgflushes, bg, raw, shrinking, shr, config,
                           flushes, file, modTime, txs, rollbacks, commits,
                           begun, atClose, due>>

\* What a walk can still visit.  A walk of a tree that its own iterator
\* changed goes on either with the items it had before it or with the items
\* the tree holds now.
Ahead == IF scan.dirty THEN {scan.rest, Refresh(DB, scan.rest)} ELSE {scan.rest}

\* The iterator (if running) returns true and is called with the next item.
ScanNext(p) ==
    /\ InScan(p)
    /\ \E rest \in Ahead :
        /\ rest # <<>>
        /\ scan' = [scan EXCEPT !.cur = Head(rest), !.rest = Tail(rest),
                                !.dirty = FALSE]
        /\ ret' = Ret("iter", p, Head(rest).key, Head(rest).val, ErrNil,
                      FALSE, Head(rest), now)
    /\ UNCHANGED <<now, keys, exps, idxs, mu, closed, persist, fileErr, synced, bgflushes, bg, raw, shrinking, shr, config, flushes, file,
                   modTime, txs, rollbacks, commits, begun, atClose, due>>

\* The iterator returns false, or the walk has no item left: scan returns.
ScanEnd(p) ==
    /\ InScan(p)
    /\ scan.cur # Nil \/ scan.rest = <<>>
    /\ scan' = NoScan
    /\ ret' = Plain("scanned", p, <<>>, ErrNil)
    /\ UNCHANGED <<now, keys, exps, idxs, mu, closed, persist, fileErr, synced, bgflushes, bg, raw, shrinking, shr, config, flushes, file,
                   modTime, txs, rollbacks, commits, begun, atClose, due>>

\* --------------------------------------------------------------- indexes
\* The tree DB.createIndex fills by ascending the keys tree.
\* (fillIndexAny: a createIndex that does not look at the pattern.)
RECURSIVE fillIndex(_, _, _, _)
fillIndexAny(btr, items, pattern, less) ==
    btr \cup {items[i] : i \in DOMAIN items}
fillIndex(btr, items, pattern, less) ==
    IF items = <<>> THEN btr
    ELSE fillIndex(IF wildcardMatch(Head(items).key, pattern)
                   THEN ReplaceOrInsert(btr, Head(items), IdxCtx(less))
                   ELSE btr,
                   Tail(items), pattern, less)

\* The r-tree DB.createIndex fills: rtree.Insert for every item of the keys
\* tree whose key matches.
fillRTree(items, pattern) == {e \in items : wildcardMatch(e.key, pattern)}

\* DB.createIndex.  less is the name of the less function ("" when the
\* caller gave none) and rect the name of the rect function ("" when nil).
createIndex(op, name, pattern, less, rect) ==
    /\ Lock(mu) # {}
    /\ IF closed THEN ret' = Plain(op, 0, <<>>, ErrDatabaseClosed)
                      /\ idxs' = idxs
       ELSE IF name = "" \/ name \in DOMAIN idxs
       THEN ret' = Plain(op, 0, <<>>, "index exists")
            /\ idxs' = idxs
       ELSE /\ idxs' = [n \in DOMAIN idxs \cup {name} |->
                          IF n = name
                          THEN [pattern |-> pattern, less |-> less,
                                rect |-> rect,
                                btr |-> fillIndex({}, TreeAscend(keys, NilCtx),
                                                  pattern, less),
                                rtr |-> IF rect = "" THEN {}
                                        ELSE fillRTree(keys, pattern)]
                          ELSE idxs[n]]
            /\ ret' = Plain(op, 0, <<>>, ErrNil)
    /\ UNCHANGED <<now, keys, exps, mu, closed, persist, fileErr, synced, bgflushes, bg, raw, shrinking, shr, config, flushes, file,
                   modTime, txs, rollbacks, commits, scan, begun, atClose,
                   due>>

\* DB.CreateIndex(name, pattern, less) and
\* DB.CreateSpatialIndex(name, pattern, rect).
CreateIndex(name, pattern, less) ==
    createIndex("CreateIndex", name, pattern, less, "")
CreateSpatialIndex(name, pattern, rect) ==
    createIndex("CreateSpatialIndex", name, pattern, "", rect)

\* The letters of an index name, and sort.Strings on a set of names.
Spell(name) ==
    CASE name = "idx" -> <<"i", "d", "x">>
      [] name = "rect" -> <<"r", "e", "c", "t">>
RECURSIVE SortStrings(_)
SortStrings(names) ==
    LET first(n) == <<n>> \o SortStrings(names \ {n})
    IN IF names = {} THEN <<>>
       ELSE first(CHOOSE n \in names :
                    \A m \in names \ {n} : StrLess(Spell(n), Spell(m)))

\* DB.Indexes.
Indexes ==
    /\ RLock(mu) # {}
    /\ ret' = IF closed THEN Plain("Indexes", 0, <<>>, ErrDatabaseClosed)
              ELSE [Plain("Indexes", 0, <<>>, ErrNil)
                       EXCEPT !.names = SortStrings(DOMAIN idxs)]
    /\ UNCHANGED <<now, keys, exps, idxs, mu, closed, persist, fileErr, synced, bgflushes, bg, raw, shrinking, shr,
                   config, flushes, file, modTime, txs, rollbacks, commits,
                   scan, begun, atClose, due>>

\* DB.ReadConfig.
ReadConfig ==
    /\ RLock(mu) # {}
    /\ ret' = IF closed THEN Plain("ReadConfig", 0, <<>>, ErrDatabaseClosed)
              ELSE [Plain("ReadConfig", 0, <<>>, ErrNil) EXCEPT !.cfg = config]
    /\ UNCHANGED <<now, keys, exps, idxs, mu, closed, persist, fileErr, synced, bgflushes, bg, raw, shrinking, shr,
                   config, flushes, file, modTime, txs, rollbacks, commits,
                   scan, begun, atClose, due>>

\* DB.SetConfig(c).
\* (SetConfigAnyway: a SetConfig that does not look at db.closed.)
ErrInvalidSyncPolicy == "invalid sync policy"
SetConfigAnyway(c) ==
    /\ Lock(mu) # {}
    /\ IF c.SyncPolicy \notin {Never, EverySecond, Always}
       THEN /\ ret' = Plain("SetConfig", 0, <<>>, ErrInvalidSyncPolicy)
            /\ config' = config
       ELSE /\ config' = c
            /\ ret' = Plain("SetConfig", 0, <<>>, ErrNil)
    /\ UNCHANGED <<now, keys, exps, idxs, mu, closed, persist, fileErr, synced, bgflushes, bg, raw, shrinking, shr,
                   flushes, file, modTime, txs, rollbacks, commits, scan,
                   begun, atClose, due>>
SetConfig(c) ==
    /\ Lock(mu) # {}
    /\ IF closed
       THEN /\ ret' = Plain("SetConfig", 0, <<>>, ErrDatabaseClosed)
            /\ config' = config
       ELSE IF c.SyncPolicy \notin {Never, EverySecond, Always}
       THEN /\ ret' = Plain("SetConfig", 0, <<>>, ErrInvalidSyncPolicy)
            /\ config' = config
       ELSE /\ config' = c
            /\ ret' = Plain("SetConfig", 0, <<>>, ErrNil)
    /\ UNCHANGED <<now, keys, exps, idxs, mu, closed, persist, fileErr, synced, bgflushes, bg, raw, shrinking, shr,
                   flushes, file, modTime, txs, rollbacks, commits, scan,
                   begun, atClose, due>>

\* DB.DropIndex(name).
DropIndex(name) ==
    /\ Lock(mu) # {}
    /\ IF closed THEN ret' = Plain("DropIndex", 0, <<>>, ErrDatabaseClosed)
                      /\ idxs' = idxs
       ELSE IF name = ""
       THEN ret' = Plain("DropIndex", 0, <<>>, "invalid operation")
            /\ idxs' = idxs
       ELSE IF name \notin DOMAIN idxs
       THEN ret' = Plain("DropIndex", 0, <<>>, ErrNotFound) /\ idxs' = idxs
       ELSE /\ idxs' = [n \in DOMAIN idxs \ {name} |-> idxs[n]]
            /\ ret' = Plain("DropIndex", 0, <<>>, ErrNil)
    /\ UNCHANGED <<now, keys, exps, mu, closed, persist, fileErr, synced, bgflushes, bg, raw, shrinking, shr, config, flushes, file,
                   modTime, txs, rollbacks, commits, scan, begun, atClose,
                   due>>

\* ----------------------------------------------------------- close, open
\* DB.Close.  A persistent database syncs and closes its file; when the
\* file does not close Close returns the error and keeps the trees.
Close ==
    /\ Lock(mu) # {}
    /\ IF closed
       THEN /\ ret' = Plain("Close", 0, <<>>, ErrDatabaseClosed)
            /\ UNCHANGED <<keys, exps, idxs, closed, atClose, synced>>
       ELSE /\ closed' = TRUE
            /\ atClose' = keys
            /\ synced' = IF persist THEN Sync(fileErr, synced, Len(file))
                         ELSE synced
            /\ IF persist /\ fileErr = ErrFileClosed
               THEN /\ ret' = Plain("Close", 0, <<>>, fileErr)
                    /\ UNCHANGED <<keys, exps, idxs>>
               ELSE /\ keys' = {}
                    /\ exps' = {}
                    /\ idxs' = NoIdxs
                    /\ ret' = Plain("Close", 0, <<>>, ErrNil)
    /\ UNCHANGED <<now, mu, persist, fileErr, bgflushes, bg, raw, shrinking, shr,
                   config, flushes, file, modTime, txs, rollbacks, commits,
                   scan, begun, due>>

\* Open on the path of the closed database: a new DB is built and the log is
\* loaded into it.  When the load fails no database is returned.
ReOpen ==
    /\ closed /\ persist
    /\ \A s \in Shrinkers : shr[s].pc = "idle"
    /\ \E r \in {load(Trees({}, {}, NoIdxs), file, modTime, now)} :
          /\ r.t <= MaxNow
          /\ now' = r.t
          /\ ret' = Plain("Open", 0, <<>>, r.err)
          /\ IF r.err # ErrNil
             THEN UNCHANGED <<keys, exps, idxs, closed, flushes, config,
                              fileErr, bgflushes, bg>>
             ELSE /\ keys' = r.db.keys
                  /\ exps' = r.db.exps
                  /\ idxs' = NoIdxs
                  /\ closed' = FALSE
                  /\ flushes' = 0
                  /\ config' = Config(EverySecond)
                  /\ fileErr' = ErrNil
                  /\ bgflushes' = 0
                  /\ bg' = TRUE
    /\ UNCHANGED <<mu, persist, synced, raw, shrinking, shr, file, modTime,
                   txs, rollbacks, commits, scan, begun, atClose, due>>

\* Open on a path where another program left the log file raw: a new DB is
\* built and the bytes are loaded into it.  When the load fails no database
\* is returned.
OpenFile ==
    /\ closed /\ persist /\ raw # NoRaw
    /\ \E r \in {loadBytes(Trees({}, {}, NoIdxs), raw.data, 1, modTime, now)} :
          /\ r.t <= MaxNow
          /\ now' = r.t
          /\ ret' = Plain("Open", 0, <<>>, r.err)
          /\ IF r.err # ErrNil
             THEN UNCHANGED <<keys, exps, idxs, closed, flushes, config,
                              fileErr, bgflushes, bg>>
             ELSE /\ keys' = r.db.keys
                  /\ exps' = r.db.exps
                  /\ idxs' = NoIdxs
                  /\ closed' = FALSE
                  /\ flushes' = 0
                  /\ config' = Config(EverySecond)
                  /\ fileErr' = ErrNil
                  /\ bgflushes' = 0
                  /\ bg' = TRUE
    /\ UNCHANGED <<mu, persist, synced, raw, shrinking, shr, file, modTime,
                   txs, rollbacks, commits, scan, begun, atClose, due>>

\* ----------------------------------------------------- background manager
\* The deletes of one round of the background manager: Tx.Delete for every
\* item of the list, from clock reading t.
RECURSIVE sweepDeletes(_, _, _, _, _)
sweepDeletes(d, rb, cm, items, t) ==
    LET next(r) == sweepDeletes(r.db, r.rb, r.cm, Tail(items), t + r.reads)
    IN IF items = <<>> THEN [db |-> d, rb |-> rb, cm |-> cm, t |-> t]
       ELSE Only({next(r) : r \in {Delete(d, rb, cm, Head(items).key, t)}})

\* The items the round collects from the expires tree at clock reading t.
\* (sweepThrough: a round that also collects the items that expire at t.
\* sweepNone: a round that collects nothing.)
sweepThrough(es, t) == TreeAscend({e \in es : e.exat <= t}, ExCtx)
sweepNone(es, t) == <<>>
sweepList(es, t) ==
    TreeAscend({e \in es : Less(e, Item(<<>>, <<>>, TRUE, t), ExCtx)}, ExCtx)

\* The Sync of the background manager, which it calls inside its Update
\* when the policy is EverySecond and db.flushes moved since its last Sync:
\* the part of the log on disk afterwards, its flushes variable, and the
\* call it made.
\* (bgSyncForget: a manager that does not note db.flushes when it syncs.)
bgSyncForget(cfg, ps, e, sy, n, seen, fl) ==
    IF ps /\ cfg.SyncPolicy = EverySecond /\ seen # fl
    THEN [synced |-> Sync(e, sy, n), flushes |-> seen, called |-> "Sync"]
    ELSE [synced |-> sy, flushes |-> seen, called |-> ""]
bgSync(cfg, ps, e, sy, n, seen, fl) ==
    IF ps /\ cfg.SyncPolicy = EverySecond /\ seen # fl
    THEN [synced |-> Sync(e, sy, n), flushes |-> fl, called |-> "Sync"]
    ELSE [synced |-> sy, flushes |-> seen, called |-> ""]

\* The error of the db.Update of a round: DB.begin refuses when the
\* database is closed.
\* (bgUpdateAnyway: a manager whose Update goes on after Close.)
bgUpdateAnyway(c) == ErrNil
bgUpdate(c) == IF c THEN ErrDatabaseClosed ELSE ErrNil

\* One round of DB.backgroundManager: an Update that deletes the expired
\* items, syncs and commits.  When the Seek that measures the log fails the
\* body returns at once and the Update rolls back nothing.  When the
\* database is closed the Update returns ErrDatabaseClosed and the manager
\* leaves its loop.
Sweep ==
    /\ bg
    /\ Lock(mu) # {}
    /\ IF bgUpdate(closed) # ErrNil
       THEN /\ bg' = FALSE
            /\ ret' = Plain("sweep", 0, <<>>, bgUpdate(closed))
            /\ UNCHANGED <<now, keys, exps, idxs, file, modTime, flushes,
                           synced, bgflushes>>
       ELSE IF persist /\ fileErr = ErrFileClosed
       THEN /\ ret' = Plain("sweep", 0, <<>>, fileErr)
            /\ UNCHANGED <<now, keys, exps, idxs, file, modTime, flushes,
                           synced, bgflushes, bg>>
       ELSE \E r \in {sweepDeletes(DB, EmptyMap, EmptyMap,
                                    sweepList(exps, now), now + 1)} :
            \E sy \in {bgSync(config, persist, fileErr, synced, Len(file),
                               bgflushes, flushes)} :
              /\ r.t <= MaxNow
              /\ now' = r.t
              /\ bgflushes' = sy.flushes
              /\ bg' = bg
              /\ IF persist /\ DOMAIN r.cm # {}
                 THEN \E o \in Orders(DOMAIN r.cm) :
                      \E wr \in Write(fileErr, writeCommits(r.cm, o, r.t).buf) :
                        /\ Len(file) + Len(wr) <= MaxLog
                        /\ flushes < MaxFlush
                        /\ file' = file \o wr
                        /\ modTime' = IF wr = <<>> THEN modTime ELSE r.t - 1
                        /\ flushes' = flushes + 1
                        /\ synced' = commitSync(config, fileErr, sy.synced,
                                                Len(file) + Len(wr))
                        /\ \E d \in {IF fileErr = ErrNil THEN r.db
                                      ELSE rollbackInner(r.db, r.rb)} :
                              /\ keys' = d.keys
                              /\ exps' = d.exps
                              /\ idxs' = d.idxs
                        /\ ret' = [Plain("sweep", 0, <<>>, fileErr) EXCEPT
                                      !.arg = sy.called]
                 ELSE /\ keys' = r.db.keys
                      /\ exps' = r.db.exps
                      /\ idxs' = r.db.idxs
                      /\ synced' = sy.synced
                      /\ ret' = [Plain("sweep", 0, <<>>, ErrNil) EXCEPT
                                    !.arg = sy.called]
                      /\ UNCHANGED <<file, modTime, flushes>>
    /\ UNCHANGED <<mu, closed, persist, fileErr, raw, shrinking, shr, config,
                   txs, rollbacks, commits, scan, begun, atClose, due>>

\* ---------------------------------------------------------------- shrink
ErrShrinkInProcess == "shrink is in-process"

\* The number the chunk loop of Shrink compares its count n with: a chunk
\* stops at the first item it meets with n > ChunkMax.  (The source has 100;
\* the databases here hold two keys.)
ChunkMax == 0

\* The records dbItem.writeSetTo appends to the chunk buffer for items, in
\* order, from clock reading t, and the clock afterwards.
RECURSIVE writeItems(_, _)
writeItems(items, t) ==
    LET more(rec, rest) == [buf |-> <<rec>> \o rest.buf, t |-> rest.t]
        write(dbi) == more(writeSetTo(dbi, t),
                           writeItems(Tail(items), IF dbi.ex THEN t + 1 ELSE t))
    IN IF items = <<>> THEN [buf |-> <<>>, t |-> t] ELSE write(Head(items))

\* The first n elements of s, and the rest.
Take(s, n) == SubSeq(s, 1, IF n < Len(s) THEN n ELSE Len(s))
Drop(s, n) == SubSeq(s, n + 1, Len(s))

\* The modification time of a file written at clock reading t, where the
\* clock stood at t0 before the call read it.
WrittenAt(t0, t) == IF t > t0 THEN t - 1 ELSE t0

\* The tests Shrink begins with: whether the call goes on, and the error it
\* returns when it does not.
\* (shrinkEntryAgain: a Shrink that does not look at the shrinking flag.)
shrinkEntryAgain(c, ps, sh) ==
    IF c THEN [go |-> FALSE, err |-> ErrDatabaseClosed]
    ELSE IF ~ps THEN [go |-> FALSE, err |-> ErrNil]
    ELSE [go |-> TRUE, err |-> ErrNil]
shrinkEntry(c, ps, sh) ==
    IF c THEN [go |-> FALSE, err |-> ErrDatabaseClosed]
    ELSE IF ~ps THEN [go |-> FALSE, err |-> ErrNil]
    ELSE IF sh THEN [go |-> FALSE, err |-> ErrShrinkInProcess]
    ELSE [go |-> TRUE, err |-> ErrNil]

\* Shrink, first step, under the lock: the refusals, or the flag is set and
\* the end of the log is noted.  (The sleep and the creation of the
\* temporary file that follow touch no state of the database.)  When the
\* Seek to the end of the log fails Shrink returns with the lock held, and
\* its deferred function waits for that lock: the call never returns.
ShrinkStart(s) ==
    /\ shr[s].pc = "idle"
    /\ \E m \in Lock(mu) :
       \E en \in {shrinkEntry(closed, persist, shrinking)} :
       IF ~en.go
       THEN /\ mu' = Unlock(m)
            /\ ret' = Plain("Shrink", s, <<>>, en.err)
            /\ UNCHANGED <<shrinking, shr>>
       ELSE IF fileErr = ErrFileClosed
       THEN /\ mu' = m
            /\ shrinking' = TRUE
            /\ shr' = [shr EXCEPT ![s] = [NoShrink EXCEPT !.pc = "hung",
                                                          !.err = fileErr]]
            /\ ret' = Plain("Shrink.hung", s, <<>>, fileErr)
       ELSE /\ mu' = Unlock(m)
            /\ shrinking' = TRUE
            /\ shr' = [shr EXCEPT ![s] = [pc |-> "chunk", endpos |-> Len(file),
                                          pivot |-> <<>>, tmp |-> <<>>,
                                          mt |-> now, err |-> ErrNil]]
            /\ ret' = Plain("Shrink.start", s, <<>>, ErrNil)
    /\ UNCHANGED <<now, keys, exps, idxs, closed, persist, fileErr, synced,
                   bgflushes, bg, raw, config, flushes, file, modTime, txs,
                   rollbacks, commits, scan, begun, atClose, due>>

\* Shrink, one chunk, under the read lock: the items from the pivot on are
\* written to the temporary file until the count passes ChunkMax.  On a full
\* device the write of the chunk fails and Shrink returns the error.
ShrinkChunk(s) ==
    /\ shr[s].pc = "chunk"
    /\ \E m \in RLock(mu) : mu' = RUnlock(m)
    /\ IF closed
       THEN /\ shr' = [shr EXCEPT ![s].pc = "defer",
                                  ![s].err = ErrDatabaseClosed]
            /\ now' = now
       ELSE \E items \in {TreeAscend({e \in keys :
                                ~StrLess(e.key, shr[s].pivot)}, NilCtx)} :
              \E w \in {writeItems(Take(items, ChunkMax + 1), now)} :
                /\ w.t <= MaxNow
                /\ now' = w.t
                /\ shr' = IF fileErr = ErrNoSpace /\ w.buf # <<>>
                   THEN [shr EXCEPT ![s].pc = "defer", ![s].err = fileErr]
                   ELSE [shr EXCEPT
                      ![s].tmp = @ \o w.buf,
                      ![s].mt = IF w.buf = <<>> THEN @ ELSE WrittenAt(now, w.t),
                      ![s].pivot = IF Len(items) > ChunkMax + 1
                                   THEN items[ChunkMax + 2].key ELSE @,
                      ![s].pc = IF Len(items) > ChunkMax + 1
                                THEN "chunk" ELSE "final"]
    /\ ret' = Plain("Shrink.chunk", s, <<>>, ErrNil)
    /\ UNCHANGED <<keys, exps, idxs, closed, persist, fileErr, synced,
                   bgflushes, bg, raw, shrinking, config, flushes, file, modTime,
                   txs, rollbacks, commits, scan, begun, atClose, due>>

\* Shrink, last step, under the lock: the records the log got since the
\* first step are copied behind the chunks and the temporary file takes the
\* place of the log, of which nothing is synced yet.  When the copy fails
\* on a full device, or the log file does not close, Shrink returns the
\* error and the log stays.
ShrinkFinal(s) ==
    /\ shr[s].pc = "final"
    /\ \E m \in Lock(mu) : mu' = Unlock(m)
    /\ IF closed
       THEN /\ shr' = [shr EXCEPT ![s].pc = "defer",
                                  ![s].err = ErrDatabaseClosed]
            /\ UNCHANGED <<file, modTime, synced>>
       ELSE \E new \in {Drop(file, shr[s].endpos)} :
              IF \/ fileErr = ErrFileClosed
                 \/ fileErr = ErrNoSpace /\ new # <<>>
              THEN /\ shr' = [shr EXCEPT ![s].pc = "defer",
                                         ![s].err = fileErr]
                   /\ UNCHANGED <<file, modTime, synced>>
              ELSE /\ file' = shr[s].tmp \o new
                   /\ modTime' = IF new = <<>> THEN shr[s].mt ELSE now
                   /\ synced' = 0
                   /\ shr' = [shr EXCEPT ![s].pc = "defer"]
    /\ ret' = Plain("Shrink.final", s, <<>>, ErrNil)
    /\ UNCHANGED <<now, keys, exps, idxs, closed, persist, fileErr, bgflushes, bg,
                   raw, shrinking, config, flushes, txs, rollbacks, commits,
                   scan, begun, atClose, due>>

\* Shrink returns: the deferred functions remove the temporary file and,
\* under the lock, clear the flag.
ShrinkDefer(s) ==
    /\ shr[s].pc = "defer"
    /\ \E m \in Lock(mu) : mu' = Unlock(m)
    /\ shrinking' = FALSE
    /\ shr' = [shr EXCEPT ![s] = NoShrink]
    /\ ret' = Plain("Shrink", s, <<>>, shr[s].err)
    /\ UNCHANGED <<now, keys, exps, idxs, closed, persist, fileErr, synced, bgflushes, bg, raw, config, flushes,
                   file, modTime, txs, rollbacks, commits, scan, begun,
                   atClose, due>>

\* ----------------------------------------------------------------- specs
\* The callers and the arguments the specifications draw from.
KA == {<<"a">>}
KB == {<<"b">>}
VX == {<<"x">>}
Plain0 == {NoOpts}
Born0 == {NoOpts, [Expires |-> TRUE, TTL |-> 0]}

InitMem == Init /\ ~persist
InitDisk == Init /\ persist

\* The data engine of an in-memory database with one caller: transactions by
\* hand and managed, items with and without TTL, an index, the clock and the
\* background manager.
Next ==
    \/ Tick
    \/ \E w \in BOOLEAN : Begin(1, w)
    \/ \E w \in BOOLEAN : Managed(1, w)
    \/ \E k \in KA, v \in Vals, o \in Opts : TxSet(1, k, v, o)
    \/ \E k \in KA : TxGet(1, k)
    \/ \E k \in KA : TxDelete(1, k)
    \/ TxLen(1)
    \/ Commit(1)
    \/ Rollback(1)
    \/ \E e \in {ErrNil, ErrBroken} : ManagedReturn(1, e)
    \/ \E n \in IndexNames, pt \in Patterns : CreateIndex(n, pt, "IndexBinary")
    \/ \E n \in IndexNames : DropIndex(n)
    \/ Sweep

Spec == InitMem /\ [][Next]_vars

\* A persistent database with one caller: transactions by hand, a key set
\* with a TTL and a key set without, the clock, the background manager, and
\* Close followed by Open of the same file.
NextLog ==
    \/ Tick
    \/ \E w \in BOOLEAN : Begin(1, w)
    \/ \E k \in KA, v \in VX, o \in Opts \ Born0 : TxSet(1, k, v, o)
    \/ \E k \in KB, v \in VX, o \in Plain0 : TxSet(1, k, v, o)
    \/ \E k \in Keys : TxGet(1, k)
    \/ \E k \in Keys : TxDelete(1, k)
    \/ Commit(1)
    \/ Rollback(1)
    \/ Sweep
    \/ Close
    \/ ReOpen

SpecLog == InitDisk /\ [][NextLog]_vars

\* A persistent database that stays open, with one caller: transactions by
\* hand on one key, set with and without TTL, an index, the clock and the
\* background manager.
NextDisk ==
    \/ Tick
    \/ \E w \in BOOLEAN : Begin(1, w)
    \/ \E k \in KA, v \in VX, o \in Opts : TxSet(1, k, v, o)
    \/ \E k \in KA : TxGet(1, k)
    \/ \E k \in KA : TxDelete(1, k)
    \/ Commit(1)
    \/ Rollback(1)
    \/ \E n \in IndexNames, pt \in Patterns : CreateIndex(n, pt, "IndexBinary")
    \/ Sweep

SpecDisk == InitDisk /\ [][NextDisk]_vars

\* The lock: three callers that begin, run and end transactions by hand and
\* managed on an in-memory database, next to the calls that take the lock
\* themselves.  No item expires, so the clock plays no part.
NextLock ==
    \/ \E p \in Procs, w \in BOOLEAN : Begin(p, w)
    \/ \E p \in Procs, w \in BOOLEAN : Managed(p, w)
    \/ \E p \in Procs, k \in KB, v \in VX, o \in Plain0 : TxSet(p, k, v, o)
    \/ \E p \in Procs, k \in KB : TxGet(p, k)
    \/ \E p \in Procs, k \in KB : TxDelete(p, k)
    \/ \E p \in Procs : Commit(p)
    \/ \E p \in Procs : Rollback(p)
    \/ \E p \in Procs, e \in {ErrNil, ErrBroken} : ManagedReturn(p, e)
    \/ \E n \in IndexNames, pt \in Patterns : CreateIndex(n, pt, "IndexBinary")
    \/ \E n \in IndexNames : DropIndex(n)
    \/ Sweep
    \/ Close

SpecLock == InitMem /\ [][NextLock]_vars

\* Scans: one caller of an in-memory database with an index on the values,
\* who scans the keys tree and the index in both directions with and without
\* limits, and calls Set and Delete from inside the iterator too.  A key is
\* set without TTL or with the TTL 0.
NextScan ==
    \/ \E w \in BOOLEAN : Begin(1, w)
    \/ \E k \in Keys, v \in VX, o \in Plain0 : TxSet(1, k, v, o)
    \/ \E k \in KA, v \in VX, o \in Born0 \ Plain0 : TxSet(1, k, v, o)
    \/ \E k \in KB : TxDelete(1, k)
    \/ Commit(1)
    \/ Rollback(1)
    \/ \E desc, gt, lt \in BOOLEAN, k1, k2 \in Keys :
           ScanStart(1, desc, gt, lt, "", k1, k2)
    \/ \E desc \in BOOLEAN, n \in IndexNames, v1, v2 \in Vals :
           ScanStart(1, desc, FALSE, FALSE, n, v1, v2)
    \/ ScanNext(1)
    \/ ScanEnd(1)
    \/ \E n \in IndexNames, pt \in {<<"*">>} : CreateIndex(n, pt, "IndexBinary")
SpecScan == InitMem /\ [][NextScan]_vars

\* Shrink of a persistent database next to one caller of write
\* transactions by hand, on a key set with the TTL 0 and a key set without
\* TTL and deleted, while the clock runs.
NextShrink ==
    \/ Tick
    \/ Begin(1, TRUE)
    \/ \E k \in KA, v \in VX, o \in Born0 \ Plain0 : TxSet(1, k, v, o)
    \/ \E k \in KB, v \in VX, o \in Plain0 : TxSet(1, k, v, o)
    \/ \E k \in KB : TxDelete(1, k)
    \/ Commit(1)
    \/ ShrinkStart(1)
    \/ ShrinkChunk(1)
    \/ ShrinkFinal(1)
    \/ ShrinkDefer(1)

SpecShrink == InitDisk /\ [][NextShrink]_vars

\* Two callers of Shrink next to one caller of read and write transactions
\* by hand, on a persistent and on an in-memory database that can be
\* closed.  No item expires, so the clock plays no part.
NextShrinkLock ==
    \/ \E w \in BOOLEAN : Begin(1, w)
    \/ \E k \in Keys, v \in VX, o \in Plain0 : TxSet(1, k, v, o)
    \/ \E k \in KA : TxGet(1, k)
    \/ Commit(1)
    \/ Rollback(1)
    \/ \E s \in Shrinkers : ShrinkStart(s)
    \/ \E s \in Shrinkers : ShrinkChunk(s)
    \/ \E s \in Shrinkers : ShrinkFinal(s)
    \/ \E s \in Shrinkers : ShrinkDefer(s)
    \/ Close

SpecShrinkLock == Init /\ [][NextShrinkLock]_vars

\* Indexes: one caller of an in-memory database who creates and drops an
\* ordered index on the values and creates a spatial index, each on every
\* key or on the key a alone, and in transactions that commit or roll back
\* sets, replaces and deletes the key a and sets the key b with the TTL 0,
\* next to the background manager.
NextIdx ==
    \/ Begin(1, TRUE)
    \/ \E k \in KA, v \in Vals, o \in Plain0 : TxSet(1, k, v, o)
    \/ \E k \in KB, v \in VX, o \in Born0 \ Plain0 : TxSet(1, k, v, o)
    \/ \E k \in KA : TxDelete(1, k)
    \/ Commit(1)
    \/ Rollback(1)
    \/ \E pt \in Patterns : CreateIndex("idx", pt, "IndexBinary")
    \/ \E pt \in Patterns : CreateSpatialIndex("rect", pt, "IndexRect")
    \/ DropIndex("idx")
    \/ Sweep

SpecIdx == InitMem /\ [][NextIdx]_vars

\* The Configs a caller passes to SetConfig: the three policies and a value
\* that is none of them.
Configs == {Config(p) : p \in {Never, EverySecond, Always, Always + 1}}

\* Every operation of DB before and after Close, on a persistent and on an
\* in-memory database: Update and View of one caller who sets a key, the
\* index calls, the configuration calls, Shrink and Close.
NextClose ==
    \/ \E w \in BOOLEAN : Managed(1, w)
    \/ \E k \in KA, v \in VX, o \in Plain0 : TxSet(1, k, v, o)
    \/ ManagedReturn(1, ErrNil)
    \/ \E pt \in Patterns : CreateIndex("idx", pt, "IndexBinary")
    \/ \E pt \in Patterns : CreateSpatialIndex("rect", pt, "IndexRect")
    \/ \E n \in {"idx", "rect"} : DropIndex(n)
    \/ Indexes
    \/ ReadConfig
    \/ \E c \in Configs : SetConfig(c)
    \/ ShrinkStart(1)
    \/ ShrinkChunk(1)
    \/ ShrinkFinal(1)
    \/ ShrinkDefer(1)
    \/ Close

SpecClose == Init /\ [][NextClose]_vars

\* The log files another program can have left at the path.  They are made
\* from the records a database writes.
SetA == <<SetVerb, <<"a">>, <<"x">>>>
SetB == <<SetVerb, <<"b">>, <<"y">>>>
DelA == <<DelVerb, <<"a">>>>
SetEx == <<SetVerb, <<"a">>, <<"y">>, ExWord, <<"9">>>>
Records == {SetA, SetB, DelA, SetEx}
\* The records before and behind the one a file is about.
Before == {<<>>, <<SetB>>, <<SetA>>}
Behind == {<<>>, <<SetB>>}

\* The bytes of a sequence of records.
RECURSIVE writeRecords(_)
writeRecords(recs) ==
    IF recs = <<>> THEN <<>>
    ELSE writeMultiBulk(Head(recs)) \o writeRecords(Tail(recs))

\* A file made of the records pre, the bytes mid and the records post.
RawFile(kind, pre, mid, post, recs) ==
    [data |-> writeRecords(pre) \o mid \o writeRecords(post),
     kind |-> kind, recs |-> recs]

\* s with byte b at place i, and s without its byte at place i.
Replace(s, i, b) == [s EXCEPT ![i] = b]
Remove(s, i) == SubSeq(s, 1, i - 1) \o SubSeq(s, i + 1, Len(s))

\* Where the bulks of the record parts begin in its bytes: the place of
\* the $ of bulk k.
BulkAt(parts, k) ==
    Len(writeHead("*", Len(parts))) + Len(writeBulks(SubSeq(parts, 1, k - 1)))
        + 1

\* The words w with every choice of upper and lower case for its letters.
ToUpper(c) ==
    CASE c = "d" -> "D" [] c = "e" -> "E" [] c = "l" -> "L" [] c = "s" -> "S"
      [] c = "t" -> "T" [] c = "x" -> "X" [] OTHER -> c
Casings(w) ==
    {[i \in DOMAIN w |-> IF up[i] THEN ToUpper(w[i]) ELSE w[i]] :
        up \in [DOMAIN w -> BOOLEAN]}

\* Well-formed files.
GoodFiles ==
    {RawFile("good", pre, <<>>, <<r>>, pre \o <<r>>) :
        pre \in Before, r \in Records}

\* Files with a record whose command name or EX is in another case.
CasedAs(r) ==
    {RawFile("case", pre, writeMultiBulk([r EXCEPT ![1] = v]), <<>>,
             pre \o <<r>>) :
        pre \in Before, v \in Casings(r[1])}
CaseFiles ==
    CasedAs(SetA) \cup CasedAs(DelA)
    \cup {RawFile("case", pre, writeMultiBulk([SetEx EXCEPT ![4] = w]), <<>>,
                  pre \o <<SetEx>>) :
        pre \in Before, w \in Casings(ExWord)}

\* Files whose last record is cut off after i bytes.
Cuts(bytes) == {Take(bytes, i) : i \in 1..(Len(bytes) - 1)}
CutFiles ==
    {RawFile("cut", pre, w, <<>>, pre) :
        pre \in Before,
        w \in Cuts(writeMultiBulk(SetA)) \cup Cuts(writeMultiBulk(DelA))}

\* Files with NUL bytes before, between and behind two records.
Nuls(n) == [i \in 1..n |-> "NUL"]
NulFiles ==
    {[data |-> Nuls(i) \o writeMultiBulk(SetA) \o Nuls(j)
                  \o writeMultiBulk(r) \o Nuls(k),
      kind |-> "nul", recs |-> <<SetA, r>>] :
        i \in 0..2, j \in 0..2, k \in 0..2, r \in {SetB, DelA}}
    \ {RawFile("nul", <<SetA>>, <<>>, <<r>>, <<SetA, r>>) : r \in {SetB, DelA}}

\* Files with a record that names another command, or has too few or too
\* many parts.
OtherVerbs == {<<"g", "e", "t">>, <<"s", "e", "x">>, <<"d", "e", "t">>,
               <<"s", "e">>, <<"s", "e", "t", "s">>, <<>>}
VerbFiles ==
    {RawFile("verb", pre, writeMultiBulk([r EXCEPT ![1] = v]), post, <<>>) :
        pre \in Before, post \in Behind, r \in {SetA, DelA},
        v \in OtherVerbs}
ArityRecords ==
    {<<SetVerb>>, <<SetVerb, <<"a">>>>, <<SetVerb, <<"a">>, <<"x">>, ExWord>>,
     <<SetVerb, <<"a">>, <<"x">>, ExWord, <<"9">>, <<"x">>>>,
     <<SetVerb, <<"a">>, <<"x">>, <<"x">>, <<"9">>>>,
     <<DelVerb>>, <<DelVerb, <<"a">>, <<"x">>>>}
ArityFiles ==
    {RawFile("arity", pre, writeMultiBulk(r), post, <<>>) :
        pre \in Before, post \in Behind, r \in ArityRecords}

\* Files with a record whose framing is damaged in one byte: the * or a $
\* is another byte, the carriage return of a header is another byte or is
\* missing, or a line feed is another byte.
FramePlaces(parts) ==
    {1, 3, 4} \cup UNION {{BulkAt(parts, k), BulkAt(parts, k) + 2,
                           BulkAt(parts, k) + 3} : k \in DOMAIN parts}
FramedAs(r) ==
    {RawFile("frame", pre, Replace(writeMultiBulk(r), i, b), post, <<>>) :
        pre \in Before, post \in Behind, i \in FramePlaces(r),
        b \in {"x", "1"}}
    \cup {RawFile("frame", pre, Remove(writeMultiBulk(r), i), post, <<>>) :
        pre \in Before, post \in Behind,
        i \in {3, BulkAt(r, 1) + 2, BulkAt(r, 2) + 2}}
FrameFiles == UNION {FramedAs(r) : r \in {SetA, DelA}}

\* Files with a record in which a length is not a digit.
LengthPlaces(parts) ==
    {2} \cup {BulkAt(parts, k) + 1 : k \in DOMAIN parts}
LengthsAs(r) ==
    {RawFile("length", pre, Replace(writeMultiBulk(r), i, b), post, <<>>) :
        pre \in Before, post \in Behind, i \in LengthPlaces(r),
        b \in {"x", "*", "\r"}}
LengthFiles == UNION {LengthsAs(r) : r \in {SetA, DelA}}

\* Files with a record in which a bulk is not followed by CR LF.
EndPlaces(parts) ==
    UNION {{BulkAt(parts, k) + 4 + Len(parts[k]),
            BulkAt(parts, k) + 5 + Len(parts[k])} : k \in DOMAIN parts}
EndsAs(r) ==
    {RawFile("crlf", pre, Replace(writeMultiBulk(r), i, b), post, <<>>) :
        pre \in Before, post \in Behind, i \in EndPlaces(r),
        b \in {"x", "$"}}
EndFiles == UNION {EndsAs(r) : r \in {SetA, DelA}}

\* Files with bytes that belong to no record, before, between and behind
\* the records.
Strays == {<<"1", "\n">>, <<"x", "\r", "\n">>, <<"\r", "\n">>, <<"\n">>,
           <<"$", "1", "\r", "\n", "x", "\r", "\n">>}
StrayFiles ==
    {RawFile("stray", pre, st, post, <<>>) :
        pre \in Before, post \in Behind, st \in Strays}
    \cup {RawFile("stray", pre, <<"x">>, <<SetB>>, <<>>) : pre \in Before}

RawFiles ==
    GoodFiles \cup CaseFiles \cup CutFiles \cup NulFiles \cup VerbFiles
        \cup ArityFiles \cup FrameFiles \cup LengthFiles \cup EndFiles
        \cup StrayFiles

\* The state in which Open is called on a path that holds one of the files.
InitFile ==
    /\ now = 0
    /\ keys = {}
    /\ exps = {}
    /\ idxs = NoIdxs
    /\ mu = [w |-> FALSE, r |-> 0]
    /\ closed = TRUE
    /\ persist = TRUE
    /\ flushes = 0
    /\ file = <<>>
    /\ modTime = 0
    /\ txs = [p \in Procs |-> NoTx]
    /\ rollbacks = EmptyMap
    /\ commits = EmptyMap
    /\ scan = NoScan
    /\ ret = Idle
    /\ begun = NoBegun
    /\ atClose = {}
    /\ due = NoDue
    /\ shrinking = FALSE
    /\ shr = [s \in Shrinkers |-> NoShrink]
    /\ config = Config(EverySecond)
    /\ raw \in RawFiles
    /\ fileErr = ErrNil
    /\ synced = 0
    /\ bgflushes = 0
    /\ bg = FALSE

\* Open of a file another program left, and a caller who reads the keys in
\* a View and closes the database.
NextFile ==
    \/ OpenFile
    \/ Managed(1, FALSE)
    \/ \E k \in Keys : TxGet(1, k)
    \/ ManagedReturn(1, ErrNil)
    \/ Close

SpecFile == InitFile /\ [][NextFile]_vars

\* Managed transactions of two callers on a persistent and on an in-memory
\* database: bodies that set and get a key, call commit or rollback by
\* hand, return nil or an error, or panic, while the log file can fail.
\* Caller 1 also begins and ends transactions by hand.
NextManaged ==
    \/ \E p \in {1, 2}, w \in BOOLEAN : Managed(p, w)
    \/ \E w \in BOOLEAN : Begin(1, w)
    \/ \E p \in {1, 2}, k \in KA, v \in VX, o \in Plain0 : TxSet(p, k, v, o)
    \/ \E p \in {1, 2}, k \in KA : TxGet(p, k)
    \/ \E p \in {1, 2} : TxCommit(p)
    \/ \E p \in {1, 2} : TxRollback(p)
    \/ \E p \in {1, 2}, e \in {ErrNil, ErrBroken} : ManagedReturn(p, e)
    \/ \E p \in {1, 2} : ManagedPanic(p)
    \/ \E e \in {ErrFileClosed, ErrNoSpace} : FileFails(e)

SpecManaged == Init /\ [][NextManaged]_vars

\* Scans of an index with and without limits, in both directions, over
\* items whose values are equal or differ, by a caller of Update and View.
NextIndexScan ==
    \/ \E w \in BOOLEAN : Managed(1, w)
    \/ \E k \in Keys, v \in Vals, o \in Plain0 : TxSet(1, k, v, o)
    \/ \E k \in Keys : TxDelete(1, k)
    \/ ManagedReturn(1, ErrNil)
    \/ \E n \in IndexNames, pt \in Patterns : CreateIndex(n, pt, "IndexBinary")
    \/ \E desc, gt, lt \in BOOLEAN, n \in IndexNames, v1, v2 \in Vals :
           ScanStart(1, desc, gt, lt, n, v1, v2)
    \/ ScanNext(1)
    \/ ScanEnd(1)

SpecIndexScan == InitMem /\ [][NextIndexScan]_vars

\* Updates of a persistent database whose log can fail and whose sync
\* policy the caller changes, next to the background manager.
NextCommit ==
    \/ Managed(1, TRUE)
    \/ \E k \in KA, v \in VX, o \in Born0 : TxSet(1, k, v, o)
    \/ \E k \in KA : TxDelete(1, k)
    \/ ManagedReturn(1, ErrNil)
    \/ \E e \in {ErrFileClosed, ErrNoSpace} : FileFails(e)
    \/ \E c \in {Config(Never), Config(Always)} : SetConfig(c)
    \/ Sweep

SpecCommit == InitDisk /\ [][NextCommit]_vars

\* The background manager next to a caller of Update who sets items that
\* expire at once or half a second later, on a persistent and on an
\* in-memory database, with an index, while the log file can fail.  The
\* caller and the passing of time leave the last Reserve clock readings,
\* and the last record and flush of the log, to the background manager, so
\* that the bounds of the model never stop a round that the code would run.
Reserve == 2
Soon == {NoOpts, [Expires |-> TRUE, TTL |-> 0], [Expires |-> TRUE, TTL |-> 1]}
Early ==
    /\ now' = now \/ now' <= MaxNow - Reserve
    /\ file' = file \/ Len(file') < MaxLog
    /\ flushes' = flushes \/ flushes' < MaxFlush

NextSweep ==
    \/ Tick /\ Early
    \/ Managed(1, TRUE)
    \/ \E k \in Keys, v \in VX, o \in Soon : TxSet(1, k, v, o) /\ Early
    \/ \E e \in {ErrNil, ErrBroken} : ManagedReturn(1, e) /\ Early
    \/ \E n \in IndexNames : CreateIndex(n, <<"*">>, "IndexBinary")
    \/ \E e \in {ErrFileClosed, ErrNoSpace} : FileFails(e)
    \/ Sweep

SpecSweep == Init /\ [][NextSweep]_vars

\* The same with one key and a log file that gets closed, under fairness: the
\* ticker wakes the background manager every second and sync.RWMutex lets
\* no new transaction in once a writer waits, so a round that can run again
\* and again does run; a body that was called returns.
Return == \E e \in {ErrNil, ErrBroken} : ManagedReturn(1, e) /\ Early
NextEvict ==
    \/ Tick /\ Early
    \/ Managed(1, TRUE)
    \/ \E k \in KA, v \in VX, o \in Soon : TxSet(1, k, v, o) /\ Early
    \/ Return
    \/ \E n \in IndexNames : CreateIndex(n, <<"*">>, "IndexBinary")
    \/ FileFails(ErrFileClosed)
    \/ Sweep

SpecEvict ==
    /\ Init /\ [][NextEvict]_vars
    /\ SF_vars(Sweep)
    /\ WF_vars(Return)

\* The syncs of the background manager: Updates of a persistent database
\* that commit or roll back, on an item that is born expired or does not
\* expire, while the caller switches the policy between Never and
\* EverySecond.
NextSync ==
    \/ Managed(1, TRUE)
    \/ \E k \in KA, v \in VX, o \in Born0 : TxSet(1, k, v, o)
    \/ \E k \in KA : TxDelete(1, k)
    \/ \E e \in {ErrNil, ErrBroken} : ManagedReturn(1, e)
    \/ \E c \in {Config(Never), Config(EverySecond)} : SetConfig(c)
    \/ Sweep

SpecSync == InitDisk /\ [][NextSync]_vars

\* Close and Open of a log that holds two records for one key: a caller of
\* write transactions by hand who sets the key a without TTL or with the
\* TTL 0 and deletes it, and who reads it.
NextReload ==
    \/ \E w \in BOOLEAN : Begin(1, w)
    \/ \E k \in KA, v \in Vals, o \in Born0 : TxSet(1, k, v, o)
    \/ \E k \in KA : TxDelete(1, k)
    \/ \E k \in KA : TxGet(1, k)
    \/ Commit(1)
    \/ Close
    \/ ReOpen

SpecReload == InitDisk /\ [][NextReload]_vars

\* Shrink of a persistent database whose log file can fail and that can be
\* closed, next to a caller of Update who sets keys without TTL.
NextShrinkEnd ==
    \/ Managed(1, TRUE)
    \/ \E k \in Keys, v \in VX, o \in Plain0 : TxSet(1, k, v, o)
    \/ ManagedReturn(1, ErrNil)
    \/ \E e \in {ErrFileClosed, ErrNoSpace} : FileFails(e)
    \/ ShrinkStart(1)
    \/ ShrinkChunk(1)
    \/ ShrinkFinal(1)
    \/ ShrinkDefer(1)
    \/ Close

SpecShrinkEnd == InitDisk /\ [][NextShrinkEnd]_vars

\* Close of a persistent database next to the background manager, a Shrink
\* and a caller of Update who sets a key that is born expired or does not
\* expire.
NextBgEnd ==
    \/ Managed(1, TRUE)
    \/ \E k \in KA, v \in VX, o \in Born0 : TxSet(1, k, v, o)
    \/ ManagedReturn(1, ErrNil)
    \/ ShrinkStart(1)
    \/ ShrinkChunk(1)
    \/ ShrinkFinal(1)
    \/ ShrinkDefer(1)
    \/ Close
    \/ Sweep

SpecBgEnd == InitDisk /\ [][NextBgEnd]_vars

\* ---------------------------------------------------------------- claims
\* The transaction of caller p that is open, and whether it can write.
Writing(p) == p \in Procs /\ txs[p].st = "open" /\ txs[p].writable
Reading(p) == p \in Procs /\ txs[p].st = "open" /\ ~txs[p].writable
\* The key-to-value mapping of a keys tree.
Mapping(tr) == {<<e.key, e.val>> : e \in tr}
\* The item a keys tree holds under k, as a set of at most one item.
Under(tr, k) == {e \in tr : e.key = k}
\* The expiration time of e has passed at instant t.
Passed(e, t) == e.ex /\ t > e.exat

\* C1: a write transaction that is rolled back leaves the keys tree, the
\* expires tree and every index exactly as they were when it began, whatever
\* Set and Delete calls it made.
C1_RollbackRestores ==
    [][(ret'.op = "Rollback" /\ Writing(ret'.p))
         => (keys' = begun.keys /\ exps' = begun.exps /\ idxs' = begun.idxs)]_vars

\* C2: when no Set used a TTL, the database that Open loads from the log has
\* exactly the key-to-value mapping that was in memory at the Close.
C2_ReplayIsMemory ==
    (/\ ret.op = "Open" /\ ret.err = ErrNil
     /\ \A i \in DOMAIN file : Len(file[i]) < Len(writeSetTo(Item(<<>>, <<>>, TRUE, 0), 0))
     /\ \A e \in atClose : ~e.ex)
        => Mapping(keys) = Mapping(atClose)

\* C3: at most one write transaction is open, and while it is open no other
\* transaction is; read-only transactions can be open together.
C3_SingleWriter ==
    LET W == {p \in Procs : Writing(p)}
        R == {p \in Procs : Reading(p)}
    IN Cardinality(W) <= 1 /\ (W # {} => R = {})

\* Two read-only transactions are open at the same time.
C3_Witness == Cardinality({p \in Procs : Reading(p)}) >= 2

\* C4: Update commits when its body returns nil; when the body returns an
\* error Update returns that error and the trees are as they were before the
\* body ran; View returns the error of its body.
C4_ManagedOutcome ==
    [][(ret'.op \in {"Update", "View"} /\ Open(ret'.p))
         => IF ret'.op = "View" THEN ret'.err = ret'.arg
            ELSE IF ret'.arg = ErrNil
            THEN ret'.err = ErrNil /\ UNCHANGED <<keys, exps, idxs>>
            ELSE /\ ret'.err = ret'.arg
                 /\ keys' = begun.keys
                 /\ exps' = begun.exps
                 /\ idxs' = begun.idxs]_vars

\* C5: a Set or Delete that the iterator of a running scan calls in a write
\* transaction returns ErrTxIterating.
C5_IteratingRefused ==
    (ret.op \in {"Set", "Delete"} /\ Writing(ret.p) /\ InScan(ret.p))
        => ret.err = ErrTxIterating

\* C6: Get returns not found when the key has no item or an item whose
\* expiration time has passed, and Get changes neither the keys tree, the
\* expires tree, an index, nor the rollbacks and commits maps.
C6_GetReadsOnly ==
    [][ret'.op = "Get"
         => /\ (\A e \in Under(keys, ret'.key) : Passed(e, ret'.at))
                  => ret'.err = ErrNotFound
            /\ UNCHANGED <<keys, exps, idxs, rollbacks, commits>>]_vars

\* Get has returned not found for an item that is still in the keys tree.
C6_Witness ==
    /\ ret.op = "Get" /\ ret.err = ErrNotFound
    /\ ret.item # Nil /\ ret.item \in keys /\ ret.item \in exps

\* C7: Delete of a live item returns its value; Delete of an expired item
\* returns not found, removes the item from the keys tree, the expires tree
\* and every index, and records the key in the rollbacks and commits maps;
\* Delete of an absent key returns not found and records nothing.
C7_DeleteOutcome ==
    [][(ret'.op = "Delete" /\ ret'.err # ErrTxNotWritable)
         => LET k == ret'.key
                found == Under(keys, k)
            IN /\ found = {}
                  => /\ ret'.err = ErrNotFound
                     /\ UNCHANGED <<keys, exps, idxs, rollbacks, commits>>
               /\ \A e \in found :
                    /\ ~Passed(e, ret'.at)
                         => ret'.err = ErrNil /\ ret'.val = e.val
                    /\ Passed(e, ret'.at) => ret'.err = ErrNotFound
                    /\ Under(keys', k) = {}
                    /\ e \notin exps'
                    /\ \A n \in DOMAIN idxs' : e \notin idxs'[n].btr
                    /\ k \in DOMAIN rollbacks'
                    /\ k \notin DOMAIN rollbacks => rollbacks'[k] = e
                    /\ k \in DOMAIN commits' /\ commits'[k] = Nil]_vars

\* Delete has returned not found for an expired item of a key that an index
\* covers, and has removed and recorded it.
C7_Witness ==
    /\ ret.op = "Delete" /\ ret.err = ErrNotFound
    /\ ret.item # Nil /\ Passed(ret.item, ret.at)
    /\ Under(keys, ret.key) = {}
    /\ ret.key \in DOMAIN rollbacks /\ ret.key \in DOMAIN commits
    /\ \E n \in DOMAIN idxs : wildcardMatch(ret.key, idxs[n].pattern)

\* C8: the iterator of a scan is never called with an item whose expiration
\* time has passed.
C8_ScanSkipsExpired == ret.op = "iter" => ~Passed(ret.item, ret.at)

\* C9: a Set with the TTL 0 succeeds, and while it is the last Set of its
\* key every Get and every Delete of the key returns not found.
C9_BornExpired ==
    /\ (ret.op = "Set" /\ ret.err # ErrTxNotWritable) => ret.err = ErrNil
    /\ (/\ ret.op \in {"Get", "Delete"} /\ ret.err # ErrTxNotWritable
        /\ due[ret.key].ttl = 0)
           => ret.err = ErrNotFound

\* Get has returned not found for an item set with the TTL 0 that is still
\* in the keys tree, where Len counts it.
C9_Witness ==
    /\ ret.op = "Get" /\ ret.err = ErrNotFound
    /\ due[ret.key].ttl = 0
    /\ ret.item \in keys /\ Cardinality(keys) = 1

\* C10: Get does not return an item later than the instant of the key's last
\* Set plus its TTL, across Close and Open too.
C10_TTLAcrossRestart ==
    (ret.op = "Get" /\ ret.err = ErrNil /\ due[ret.key].ttl >= 0)
        => ret.at <= due[ret.key].at + due[ret.key].ttl

\* The items of a keys tree that have not expired at instant t.
Live(tr, t) == {e \in tr : ~expired(e, t)}
\* What Open would load from the log at this instant.
Replay == load(Trees({}, {}, NoIdxs), file, modTime, now)

\* C11: when Shrink returns success, the rewritten log replays, and replays
\* to exactly the key-to-value mapping of the unexpired items in memory,
\* whatever transactions committed before, between and after its chunks.
C11_ShrinkPreserves ==
    (ret.op = "Shrink" /\ ret.err = ErrNil /\ persist)
        => \E r \in {Replay} :
              r.err = ErrNil /\ Mapping(r.db.keys) = Mapping(Live(keys, now))

\* The callers that are inside Shrink.
Shrinking == {s \in Shrinkers : shr[s].pc # "idle"}

\* C12: at most one caller is inside Shrink; a Shrink called while the
\* shrinking flag is set returns ErrShrinkInProcess and leaves the log, the
\* temporary file and the flag alone; a Shrink of an open in-memory database
\* returns nil and changes nothing.
C12_OneShrink ==
    [][/\ Cardinality(Shrinking') <= 1
       /\ (/\ shrinking /\ ~closed
           /\ ret'.op \in {"Shrink", "Shrink.start"}
           /\ shr[ret'.p].pc = "idle")
             => /\ ret'.op = "Shrink" /\ ret'.err = ErrShrinkInProcess
                /\ UNCHANGED <<file, modTime, shr, shrinking>>
       /\ (ret'.op = "Shrink" /\ ~persist /\ ~closed)
             => /\ ret'.err = ErrNil
                /\ UNCHANGED <<now, keys, exps, idxs, mu, closed, persist, fileErr, synced, bgflushes, bg,
                               flushes, file, modTime, txs, rollbacks,
                               commits, scan, shrinking, shr, config>>]_vars

\* A Shrink has been refused while another caller is between two chunks.
C12_Witness ==
    /\ ret.op = "Shrink" /\ ret.err = ErrShrinkInProcess
    /\ \E s \in Shrinkers \ {ret.p} : shr[s].pc = "chunk" /\ shr[s].tmp # <<>>

\* C13: while a caller is inside Shrink, between its steps, the lock is held
\* by the open transaction only: a caller without a transaction can begin
\* one, for reading or for writing.
C13_ShrinkDoesNotBlock ==
    Shrinking # {}
        => /\ mu.w = Writing(1)
           /\ mu.r = IF Reading(1) THEN 1 ELSE 0
           /\ txs[1].st = "none"
                 => (ENABLED Begin(1, TRUE)) /\ (ENABLED Begin(1, FALSE))

\* A write transaction has committed its record to the log after a Shrink
\* wrote its first chunk and before the Shrink returned.
C13_Witness ==
    /\ ret.op = "Commit" /\ ret.err = ErrNil
    /\ \E s \in Shrinkers :
          /\ shr[s].pc \in {"chunk", "final"}
          /\ shr[s].tmp # <<>>
          /\ Len(file) > shr[s].endpos

\* The items of a keys tree whose key matches pattern.
Matching(tr, pattern) == {e \in tr : wildcardMatch(e.key, pattern)}

\* C14: every index holds, in its b-tree and (a spatial index) in its
\* r-tree, exactly the items of the keys tree whose key matches its pattern.
C14_IndexMembership ==
    \A n \in DOMAIN idxs :
       /\ idxs[n].btr = Matching(keys, idxs[n].pattern)
       /\ idxs[n].rtr = IF idxs[n].rect = "" THEN {}
                        ELSE Matching(keys, idxs[n].pattern)

\* Set has replaced the value of a key that an ordered and a spatial index
\* hold, while the other key matches the pattern of neither.
C14_Witness ==
    /\ ret.op = "Set" /\ ret.replaced
    /\ \E e \in Under(keys, ret.key) : e.val # ret.val
    /\ \E e \in keys : e.key # ret.key
    /\ DOMAIN idxs = {"idx", "rect"}
    /\ \A n \in DOMAIN idxs : Cardinality(idxs[n].btr) = 1

\* C15: the expires tree holds exactly the items of the keys tree that have
\* a TTL; a Set without options that replaces an item with a TTL takes that
\* item out of the expires tree; and after the rollback of a write
\* transaction every item that was in the expires tree when the transaction
\* began is in it again.
C15_ExpiresTree ==
    [][/\ exps' = {e \in keys' : e.ex}
       /\ (/\ ret'.op = "Set" /\ ret'.replaced /\ ret'.item.ex
           /\ due'[ret'.key] = NoTTL)
             => ret'.item \notin exps'
       /\ (ret'.op = "Rollback" /\ Writing(ret'.p))
             => begun.exps \subseteq exps']_vars

\* The names under which the calls of DB return.
DBCalls == {"begin", "CreateIndex", "CreateSpatialIndex", "DropIndex",
            "Indexes", "ReadConfig", "SetConfig", "Shrink", "Shrink.start",
            "Close"}

\* C16: on a closed database Update, View, CreateIndex, CreateSpatialIndex,
\* DropIndex, Indexes, ReadConfig, SetConfig, Shrink and Close return
\* ErrDatabaseClosed and change nothing.
C16_ClosedRefusesAll ==
    [][(/\ closed
        /\ ret'.op \in DBCalls
        /\ ret'.op = "Shrink" => shr[ret'.p].pc = "idle")
          => /\ ret'.err = ErrDatabaseClosed
             /\ ret'.names = <<>> /\ ret'.cfg = Config(Never)
             /\ UNCHANGED <<now, keys, exps, idxs, mu, closed, persist, fileErr, synced, bgflushes, bg,
                            flushes, file, modTime, txs, rollbacks, commits,
                            scan, shrinking, shr, config>>]_vars

\* SetConfig has been refused on a database that was closed while it held a
\* key, after another SetConfig had changed the policy.
C16_Witness ==
    /\ closed /\ atClose # {}
    /\ ret.op = "SetConfig" /\ ret.err = ErrDatabaseClosed
    /\ config # Config(EverySecond)

\* The kinds of files that are not a log.
BadKinds == {"verb", "arity", "frame", "length", "crlf", "stray"}

Expected ==
    load(Trees({}, {}, NoIdxs),
         [i \in DOMAIN raw.recs |-> Numerals(raw.recs[i])], modTime, ret.at)
\* Open has succeeded and the trees are the ones r holds.
Loaded(r) ==
    /\ ret.err = ErrNil /\ ~closed
    /\ r.err = ErrNil /\ keys = r.db.keys /\ exps = r.db.exps

\* C18: Open of a file in which the name of a command or the word EX is
\* written in any mix of upper and lower case succeeds, and loads what the
\* same file in lower case loads.
C18_AnyCase ==
    (raw.kind = "case" /\ ret.op = "Open") => \E r \in {Expected} : Loaded(r)

\* C19: Open of a file whose last record is cut off succeeds, and loads the
\* records before it.
C19_CutTail ==
    (raw.kind = "cut" /\ ret.op = "Open") => \E r \in {Expected} : Loaded(r)

\* C20: Open of a file with NUL bytes before, between or behind its records
\* succeeds, and loads the records.
C20_NulsSkipped ==
    (raw.kind = "nul" /\ ret.op = "Open") => \E r \in {Expected} : Loaded(r)

\* The callers with an open transaction of DB.managed.
InBody == {p \in Procs : txs[p].st = "open" /\ txs[p].funcd}

\* C21: a commit or rollback called by hand from inside the body of Update
\* or View panics and changes nothing, so that the transaction stays open
\* with its lock; and only the return of Update or View ends a managed
\* transaction, with a commit or rollback that does not find it closed.
C21_ManualEndPanics ==
    [][/\ (ret'.op \in {"commit", "rollback", "Commit", "Rollback"}
           /\ ret'.p \in InBody)
             => /\ ret'.err = ErrPanic
                /\ ret'.arg = (IF ret'.op = "commit" THEN PanicCommit
                               ELSE PanicRollback)
                /\ UNCHANGED <<now, keys, exps, idxs, mu, closed, persist,
                               fileErr, synced, flushes, file, modTime, txs,
                               rollbacks, commits, scan>>
       /\ \A p \in InBody \ InBody' :
             /\ ret'.op = ManagedName(p) /\ ret'.p = p
             /\ ret'.err # ErrTxClosed
             /\ txs'[p] = NoTx]_vars

\* A commit by hand has just panicked inside the body of an Update that
\* has set a key: the transaction is open, holds the write lock and still
\* has its pending write.
C21_Witness ==
    /\ ret.op = "commit" /\ ret.err = ErrPanic /\ ret.arg = PanicCommit
    /\ ret.p \in InBody /\ txs[ret.p].writable
    /\ mu.w /\ DOMAIN commits # {}

\* C22: the lock is held by the open transactions and by nothing else: when
\* Update or View has returned, whether its body returned nil or an error
\* or panicked and whether or not the commit could write, its caller holds
\* no transaction, and when no transaction is open a write transaction can
\* begin.
C22_LockReleased ==
    /\ mu.w = (\E p \in Procs : Writing(p))
    /\ mu.r = Cardinality({p \in Procs : Reading(p)})
    /\ ret.op \in {"Update", "View"} => txs[ret.p] = NoTx
    /\ (\A p \in Procs : txs[p].st = "none") => ENABLED Managed(1, TRUE)

\* Update has returned the error of a failed write after its body panicked,
\* and no transaction is open.
C22_Witness ==
    /\ ret.op = "Update" /\ ret.arg = ErrPanic /\ ret.err = ErrNoSpace
    /\ \A p \in Procs : txs[p].st = "none"
    /\ mu = [w |-> FALSE, r |-> 0]

\* C23: a Set of value v under key k returns the value of the item the
\* keys tree held under k and replaced = TRUE when that item had not expired
\* at the time Set looked at it, and the empty value and replaced = FALSE
\* when the tree held no item under k (never set, or deleted before in the
\* same transaction) or held one that had expired before the call; after
\* the call the keys tree, the expires tree and every index whose pattern
\* matches k hold the new item under k and no other.
C23_SetReturns ==
    [][\A k \in KA, v \in Vals, o \in Opts :
         (ret'.op = "Set" /\ ret'.err = ErrNil /\ TxSet(1, k, v, o)) =>
            LET old == Under(keys, k)
                new == IF o.Expires THEN Item(k, v, TRUE, now + o.TTL)
                       ELSE Item(k, v, FALSE, 0)
            IN /\ (old = {} \/ \E e \in old : Passed(e, now))
                     => ~ret'.replaced /\ ret'.val = <<>>
               /\ \A e \in old : ~Passed(e, now' - 1)
                     => ret'.replaced /\ ret'.val = e.val
               /\ ret'.replaced
                     => \E e \in old : ret'.val = e.val /\ ~Passed(e, now)
               /\ Under(keys', k) = {new}
               /\ Under(exps', k) = (IF o.Expires THEN {new} ELSE {})
               /\ \A n \in DOMAIN idxs' :
                     Under(idxs'[n].btr, k) =
                        (IF wildcardMatch(k, idxs'[n].pattern) THEN {new}
                         ELSE {})]_vars

\* A Set has just replaced an item that had expired and was still in the
\* keys tree, and returned the empty value and replaced = FALSE.
C23_Witness ==
    /\ ret.op = "Set" /\ ret.err = ErrNil
    /\ ret.item # Nil /\ ret.item.val # <<>>
    /\ ~ret.replaced /\ ret.val = <<>>
    /\ Under(keys, ret.key) # {}

\* The items of sequence s, and s visits each item once.
Visits(s, want) ==
    /\ {s[i] : i \in 1..Len(s)} = want
    /\ Len(s) = Cardinality(want)

\* a <= b for strings.
StrLE(a, b) == ~StrLess(b, a)

\* The scans that go from the greatest item down.
Descending ==
    {"Descend", "DescendLessOrEqual", "DescendGreaterThan", "DescendRange"}

\* C24: a scan of the keys tree visits, in ascending key order (descending
\* for the Descend family), exactly the items whose keys are within its
\* limits: all; key >= p; key < p; a <= key < b; all; key <= p; key > p;
\* lo < key <= hi.
C24_KeyScans ==
    [][(ret'.op = "scan" /\ ret'.err = ErrNil /\ ret'.names = <<"">>) =>
          LET s == scan'.rest
              a == ret'.key
              b == ret'.val
              m == ret'.arg
              in(k) ==
                  CASE m = "Ascend" -> TRUE
                    [] m = "AscendGreaterOrEqual" -> StrLE(a, k)
                    [] m = "AscendLessThan" -> StrLess(k, a)
                    [] m = "AscendRange" -> StrLE(a, k) /\ StrLess(k, b)
                    [] m = "Descend" -> TRUE
                    [] m = "DescendLessOrEqual" -> StrLE(k, a)
                    [] m = "DescendGreaterThan" -> StrLess(a, k)
                    [] m = "DescendRange" -> StrLess(b, k) /\ StrLE(k, a)
          IN /\ Visits(s, {e \in keys : in(e.key)})
             /\ \A i, j \in 1..Len(s) :
                   i < j => IF m \in Descending
                            THEN StrLess(s[j].key, s[i].key)
                            ELSE StrLess(s[i].key, s[j].key)]_vars

\* DescendRange("", b, a) has started on a keys tree that holds a and b: it
\* will visit b and not a.
C24_Witness ==
    /\ ret.op = "scan" /\ ret.arg = "DescendRange" /\ ret.names = <<"">>
    /\ ret.key = <<"b">> /\ ret.val = <<"a">>
    /\ scan.active /\ scan.cur = Nil
    /\ Cardinality(keys) = 2
    /\ Len(scan.rest) = 1 /\ scan.rest[1].key = <<"b">>

\* The items of the keys tree that index n holds: those whose key matches
\* its pattern.
Indexed(n) == {e \in keys : wildcardMatch(e.key, idxs[n].pattern)}

\* Sequence s is in the order of an index: by value, and by key among equal
\* values; descending when desc.
ByValue(s, desc) ==
    \A i, j \in 1..Len(s) :
       i < j => LET lo == IF desc THEN s[j] ELSE s[i]
                    hi == IF desc THEN s[i] ELSE s[j]
                IN \/ StrLess(lo.val, hi.val)
                   \/ lo.val = hi.val /\ StrLess(lo.key, hi.key)

\* C25: an ascending scan of an index visits once, ordered by value and by
\* key among equal values, exactly the items whose key matches the pattern
\* of the index and whose value is within the limits: all; value >= p;
\* value < p; a <= value < b.
C25_IndexAscends ==
    [][(ret'.op = "scan" /\ ret'.err = ErrNil /\ ret'.names # <<"">>
        /\ ret'.arg \notin Descending) =>
          LET s == scan'.rest
              a == ret'.key
              b == ret'.val
              m == ret'.arg
              in(v) ==
                  CASE m = "Ascend" -> TRUE
                    [] m = "AscendGreaterOrEqual" -> StrLE(a, v)
                    [] m = "AscendLessThan" -> StrLess(v, a)
                    [] m = "AscendRange" -> StrLE(a, v) /\ StrLess(v, b)
          IN /\ Visits(s, {e \in Indexed(ret'.names[1]) : in(e.val)})
             /\ ByValue(s, FALSE)]_vars

\* AscendGreaterOrEqual on an index that holds two items of the value of
\* the limit has started and will visit both, a before b.
C25_Witness ==
    /\ ret.op = "scan" /\ ret.arg = "AscendGreaterOrEqual"
    /\ ret.names # <<"">>
    /\ scan.active /\ scan.cur = Nil
    /\ Len(scan.rest) = 2
    /\ scan.rest[1].val = ret.key /\ scan.rest[2].val = ret.key
    /\ scan.rest[1].key = <<"a">>

\* C26: a descending scan of an index with a limit visits, in descending
\* order of value, exactly the items of the index whose value is within
\* the limits: DescendLessOrEqual value <= p, DescendGreaterThan value > p,
\* DescendRange lo < value <= hi.
C26_IndexDescends ==
    [][(ret'.op = "scan" /\ ret'.err = ErrNil /\ ret'.names # <<"">>
        /\ ret'.arg \in Descending \ {"Descend"}) =>
          LET s == scan'.rest
              a == ret'.key
              b == ret'.val
              m == ret'.arg
              in(v) ==
                  CASE m = "DescendLessOrEqual" -> StrLE(v, a)
                    [] m = "DescendGreaterThan" -> StrLess(a, v)
                    [] m = "DescendRange" -> StrLess(b, v) /\ StrLE(v, a)
          IN /\ Visits(s, {e \in Indexed(ret'.names[1]) : in(e.val)})
             /\ ByValue(s, TRUE)]_vars

\* The errors of a log file that fails.
FileErrs == {ErrFileClosed, ErrNoSpace}

\* C27: when the commit of an Update cannot write its records to the log,
\* the keys tree, the expires tree and the indexes are afterwards as they
\* were when the transaction began, the write lock is free, the
\* transaction is closed, and Update returns the error of the write.
C27_FailedCommitUndoes ==
    [][(ret'.op = "Update" /\ ret'.err \in FileErrs) =>
          /\ keys' = begun.keys /\ exps' = begun.exps /\ idxs' = begun.idxs
          /\ ~mu'.w /\ txs'[ret'.p] = NoTx
          /\ ret'.err = fileErr]_vars

\* C28: with sync policy Always, a commit that has appended records to the
\* log, of an Update or of the background manager, has synced the log up
\* to its end when it gives the write lock back.
C28_AlwaysSyncs ==
    [][(config.SyncPolicy = Always /\ ret'.op \in {"Update", "sweep"}
        /\ file' # file) =>
          /\ synced' = Len(file')
          /\ ~mu'.w]_vars

\* An Update has committed a record under sync policy Always while the log
\* held an earlier record written under another policy.
C28_Witness ==
    /\ ret.op = "Update" /\ ret.err = ErrNil
    /\ config.SyncPolicy = Always
    /\ Len(file) = 2 /\ synced = 2
    /\ flushes = 2

\* The items of tree tr that a round reading the clock at t leaves, when it
\* takes those that expire before t (or at t, when through).
Left(tr, t, through) ==
    {e \in tr : ~(e.ex /\ (e.exat < t \/ (through /\ e.exat = t)))}

Timed == {Item(k, v, TRUE, t) : k \in KA, v \in VX, t \in 0..MaxNow}

\* Item e is in the database and its expiration time has passed, at a clock
\* reading from which a round of the background manager fits the model.
Overdue(e) == e \in keys /\ Passed(e, now) /\ now <= MaxNow - Reserve

\* Item e is in no tree.
Gone(e) ==
    /\ e \notin keys /\ e \notin exps
    /\ \A n \in DOMAIN idxs : e \notin idxs[n].btr

C31_UndoIsPreimage ==
    (\E p \in Procs : Writing(p)) =>
        \A k \in DOMAIN rollbacks : rollbacks[k] = get(begun.keys, k)

\* C32: a round of the background manager of a persistent database under
\* the policy EverySecond calls Sync exactly when a commit has appended to
\* the log since the Sync of an earlier round, and the Sync puts on disk
\* every record the log held when the round began.
C32_SyncsEverySecond ==
    [][(ret'.op = "sweep" /\ config.SyncPolicy = EverySecond) =>
          /\ (ret'.arg = "Sync") <=> (synced < Len(file))
          /\ synced' = Len(file)]_vars

\* A round has synced the record of a caller's commit and has then
\* appended the delete of an expired item, which the next round will sync.
C32_Witness ==
    /\ ret.op = "sweep" /\ ret.arg = "Sync"
    /\ config.SyncPolicy = EverySecond
    /\ synced = 1 /\ Len(file) = 2
    /\ flushes = 2 /\ bgflushes = 1

\* The keys of the SET records recs, in order.
KeysOf(recs) == [i \in DOMAIN recs |-> recs[i][2]]

\* The temporary file of s holds one record for every key of the keys tree
\* and no key twice.
EachKeyOnce(s) ==
    /\ Len(shr[s].tmp) = Cardinality(keys)
    /\ {KeysOf(shr[s].tmp)[i] : i \in DOMAIN shr[s].tmp} = {e.key : e \in keys}

\* C33: a chunk of Shrink, which is one critical section under the read
\* lock, adds at most ChunkMax records (100 in the source) to the temporary
\* file, and when the last step of a Shrink begins with no commit written
\* since its first step, the temporary file holds every key of the keys
\* tree exactly once.
C33_ChunksOfAtMostMax ==
    [][/\ ret'.op = "Shrink.chunk" =>
            \A s \in Shrinkers : Len(shr'[s].tmp) - Len(shr[s].tmp) <= ChunkMax
       /\ ret'.op = "Shrink.final" =>
            \A s \in Shrinkers :
               (shr[s].pc = "final" /\ Len(file) = shr[s].endpos)
                  => EachKeyOnce(s)]_vars

\* C35 as claimed: the index that CreateIndex has made holds exactly the
\* items of the keys tree whose key matches its pattern and that have not
\* expired when it is made.
C35_BackfillsLive ==
    [][(ret'.op = "CreateIndex" /\ ret'.err = ErrNil) =>
          \A n \in DOMAIN idxs' \ DOMAIN idxs :
             idxs'[n].btr =
                {e \in Matching(keys, idxs'[n].pattern) : ~Passed(e, now)}]_vars

\* C35 amended: the index that CreateIndex has made holds exactly the items
\* of the keys tree whose key matches its pattern, expired or not.
C35_BackfillsMatching ==
    [][(ret'.op = "CreateIndex" /\ ret'.err = ErrNil) =>
          \A n \in DOMAIN idxs' \ DOMAIN idxs :
             idxs'[n].btr = Matching(keys, idxs'[n].pattern)]_vars

\* CreateIndex has made an index on the key a while the keys tree held a
\* and an expired item under b: the index holds a alone.  (With the
\* pattern * the expired item is in the index too.)
C35_Witness ==
    /\ ret.op = "CreateIndex" /\ ret.err = ErrNil
    /\ "idx" \in DOMAIN idxs
    /\ \E e \in keys : Passed(e, now) /\ e \notin idxs["idx"].btr
    /\ \E e \in keys : e \in idxs["idx"].btr

\* The seconds of every SET ... EX record of recs are a decimal that is not
\* negative and that strconv.ParseInt takes.
SecondsFine(recs) ==
    \A i \in DOMAIN recs :
        Len(recs[i]) = 5 =>
            /\ ParseIntOK(recs[i][5])
            /\ ParseInt(recs[i][5]) >= 0

\* C36: every SET ... EX record in the log and in the temporary file of a
\* Shrink carries seconds that are not negative and that the loader can
\* parse, and the log loads without an error.
C36_SecondsNotNegative ==
    /\ SecondsFine(file)
    /\ \A s \in Shrinkers : SecondsFine(shr[s].tmp)
    /\ Replay.err = ErrNil

\* The place of the last record of recs for the key k, or 0.
LastFor(recs, k) ==
    LET at == {i \in DOMAIN recs : recs[i][2] = k}
    IN IF at = {} THEN 0 ELSE CHOOSE i \in at : \A j \in at : j <= i

\* What the record rec says the key holds when it is loaded at clock
\* reading t from a file modified at mt: a set of at most one value.
Says(rec, mt, t) ==
    IF rec[1] = DelVerb THEN {}
    ELSE IF Len(rec) = 5 /\ ParseInt(rec[5]) * Second - (t - mt) <= 0 THEN {}
    ELSE {rec[3]}

\* C37: after Open has loaded the log, every key holds what the last
\* record of the log for that key says: nothing when that record is a
\* DEL or a SET ... EX that had expired when it was loaded, else its value.
C37_LastRecordDecides ==
    [][(ret'.op = "Open" /\ ret'.err = ErrNil) =>
          \A k \in Keys :
             {e.val : e \in Under(keys', k)} =
                IF LastFor(file, k) = 0 THEN {}
                ELSE Says(file[LastFor(file, k)], modTime, now)]_vars

\* C38: when the body of an Update has panicked, the keys tree, the expires
\* tree and the indexes are as they were when the transaction began, and
\* the log holds no record more.
C38_PanicUndoes ==
    [][(ret'.op = "Update" /\ ret'.arg = ErrPanic) =>
          /\ keys' = begun.keys
          /\ exps' = begun.exps
          /\ idxs' = begun.idxs
          /\ file' = file]_vars

\* The call of Shrink by s is between its first step and its return.
InShrink(s) == shr[s].pc # "idle"

\* s is a prefix of t.
Prefix(s, t) == Len(s) <= Len(t) /\ SubSeq(t, 1, Len(s)) = s

\* C34: while a Shrink has not put its temporary file in the place of the
\* log, the log keeps its content and only grows by commits; a step of
\* Shrink that fails leaves the log as it is and gives the lock back, so
\* that the call returns and commits can go on; and when the call returns
\* an error the temporary file is gone.
C34_FailedShrinkKeepsLog ==
    [][\A s \in Shrinkers :
          /\ (InShrink(s) /\ ~(shr[s].pc = "final" /\ shr'[s].err = ErrNil))
                => Prefix(file, file')
          /\ (shr[s].err = ErrNil /\ shr'[s].err # ErrNil)
                => file' = file /\ ~mu'.w
          /\ (InShrink(s) /\ ret'.op = "Shrink" /\ ret'.p = s
                 /\ ret'.err # ErrNil)
                => file' = file /\ shr'[s] = NoShrink /\ ~mu'.w]_vars

\* C39: no call of Shrink holds the lock between its steps or after it, a
\* call in progress can take its next step whenever no transaction is
\* open, and when no call is in progress the shrinking flag is false.
C39_ShrinkReturns ==
    /\ mu.w => \E p \in Procs : Writing(p)
    /\ \A s \in Shrinkers :
          (InShrink(s) /\ \A p \in Procs : txs[p].st = "none")
             => ENABLED (ShrinkChunk(s) \/ ShrinkFinal(s) \/ ShrinkDefer(s))
    /\ (\A s \in Shrinkers : ~InShrink(s)) => ~shrinking

\* C40: the round of the background manager that finds the database closed
\* changes nothing and is its last; a step of a Shrink in progress that
\* finds the database closed fails with ErrDatabaseClosed and leaves the
\* log alone, and the call returns that error.
C40_ClosedEndsBackground ==
    [][/\ (ret'.op = "sweep" /\ closed) =>
            /\ ret'.err = ErrDatabaseClosed
            /\ ~bg'
            /\ UNCHANGED <<now, keys, exps, idxs, file, modTime, flushes,
                           synced, bgflushes, shrinking, shr, mu>>
       /\ ret'.op = "sweep" => bg
       /\ \A s \in Shrinkers :
            /\ (closed /\ shr[s].pc \in {"chunk", "final"} /\ shr'[s] # shr[s])
                  => /\ shr'[s].err = ErrDatabaseClosed
                     /\ shr'[s].tmp = shr[s].tmp
                     /\ UNCHANGED <<file, modTime, synced>>
            /\ (closed /\ InShrink(s) /\ ~InShrink(s)')
                  => /\ ret'.op = "Shrink" /\ ret'.err = shr[s].err
                     /\ UNCHANGED <<file, modTime, synced>>]_vars

\* The database was closed while a Shrink had written a chunk: the
\* background manager has made its last round and the Shrink is about to
\* return ErrDatabaseClosed, with the log as the database left it.
C40_Witness ==
    /\ closed /\ ~bg
    /\ shr[1].pc = "defer" /\ shr[1].err = ErrDatabaseClosed
    /\ shr[1].tmp # <<>>
    /\ file # <<>>

====
